---------------------------- MODULE Spec2Model ----------------------------
(***************************************************************************)
(* A model of uvcond (src/uvcond/__main__.py): named virtual environments  *)
(* on top of an external tool, recipes stored as TOML, a small config      *)
(* file and a multi-level command dispatcher.                              *)
(*                                                                         *)
(* A string is a sequence of one-character strings, so that escaping,      *)
(* stripping and parsing are computed character by character.              *)
(***************************************************************************)
EXTENDS Integers, Sequences, FiniteSets, TLC

(***************************************************************************)
(* Characters                                                              *)
(***************************************************************************)
DQ == "\""
BS == "\\"
NL == "\n"
SP == " "
LB == "["
RB == "]"
CM == ","

\* Bounds of the model: the length of the strings drawn as inputs, the length
\* of a string a command may write, the length of a post-install command list.
MaxStrLen == 2
MaxTextLen == 3
MaxCmds == 2

\* _toml_value: a list whose items total more than this many characters is
\* written one item per line.
InlineListMax == 60

Range(s) == {s[i] : i \in 1..Len(s)}

StartsWith(src, pos, pre) ==
    /\ pos + Len(pre) - 1 <= Len(src)
    /\ \A i \in 1..Len(pre) : src[pos + i - 1] = pre[i]

RECURSIVE Replace(_, _, _)
\* str.replace(c, r) for a one-character c.
Replace(s, c, r) ==
    IF s = <<>> THEN <<>>
    ELSE (IF Head(s) = c THEN r ELSE <<Head(s)>>) \o Replace(Tail(s), c, r)

RECURSIVE SumLen(_)
SumLen(list) == IF list = <<>> THEN 0 ELSE Len(Head(list)) + SumLen(Tail(list))

(***************************************************************************)
(* The TOML writer, _toml_value                                            *)
(***************************************************************************)
\* _toml_value on a string.
toml_value_str(value) ==
    IF NL \in Range(value)
    THEN <<DQ, DQ, DQ, NL>> \o value \o <<NL, DQ, DQ, DQ>>
    ELSE <<DQ>> \o Replace(Replace(value, BS, <<BS, BS>>), DQ, <<BS, DQ>>) \o <<DQ>>

RECURSIVE JoinItems(_, _, _)
\* pre + item + post for every item, concatenated.
JoinItems(list, pre, post) ==
    IF list = <<>> THEN <<>>
    ELSE pre \o toml_value_str(Head(list)) \o post \o JoinItems(Tail(list), pre, post)

RECURSIVE JoinComma(_)
\* ", ".join(_toml_value(item) for item in value)
JoinComma(list) ==
    IF list = <<>> THEN <<>>
    ELSE IF Len(list) = 1 THEN toml_value_str(Head(list))
    ELSE toml_value_str(Head(list)) \o <<CM, SP>> \o JoinComma(Tail(list))

\* _toml_value on a list of strings.
toml_value_list(value) ==
    IF Len(value) = 0 THEN <<LB, RB>>
    ELSE IF SumLen(value) > InlineListMax
    THEN <<LB, NL>> \o JoinItems(value, <<SP, SP, SP, SP>>, <<CM, NL>>) \o <<RB>>
    ELSE <<LB>> \o JoinComma(value) \o <<RB>>

(***************************************************************************)
(* The TOML reader: what tomllib.load does with the values the recipe      *)
(* schema holds (basic strings, multi-line basic strings, arrays of them). *)
(* A parse result is [ok, pos, val]: pos is the position after the value.  *)
(***************************************************************************)
Fail == [ok |-> FALSE, pos |-> 0, val |-> <<>>]
Parsed(p, v) == [ok |-> TRUE, pos |-> p, val |-> v]

RECURSIVE skip_chars(_, _, _)
skip_chars(src, pos, chars) ==
    IF pos <= Len(src) /\ src[pos] \in chars THEN skip_chars(src, pos + 1, chars) ELSE pos

\* parse_basic_str_escape, a backslash and blanks in a multi-line string: q
\* is the position after the blanks, where the line must end.
line_ending_backslash(src, q) ==
    IF q > Len(src) THEN Parsed(q, <<>>)
    ELSE IF src[q] # NL THEN Fail
    ELSE Parsed(skip_chars(src, q + 1, {SP, NL}), <<>>)

\* parse_basic_str_escape: src[pos] is the backslash.
basic_str_escape(src, pos, multiline) ==
    IF pos + 1 > Len(src) THEN Fail
    ELSE IF multiline /\ src[pos + 1] = NL THEN Parsed(skip_chars(src, pos + 2, {SP, NL}), <<>>)
    ELSE IF multiline /\ src[pos + 1] = SP
    THEN line_ending_backslash(src, skip_chars(src, pos + 2, {SP}))
    ELSE IF src[pos + 1] = DQ THEN Parsed(pos + 2, <<DQ>>)
    ELSE IF src[pos + 1] = BS THEN Parsed(pos + 2, <<BS>>)
    ELSE IF src[pos + 1] = "n" THEN Parsed(pos + 2, <<NL>>)
    ELSE Fail

RECURSIVE basic_str(_, _, _, _)
\* parse_basic_str after an escape sequence e.
after_escape(src, multiline, acc, e) ==
    IF ~e.ok THEN Fail ELSE basic_str(src, e.pos, multiline, acc \o e.val)

\* parse_basic_str: the characters from pos up to the closing delimiter.
basic_str(src, pos, multiline, acc) ==
    IF pos > Len(src) THEN Fail
    ELSE IF src[pos] = DQ
    THEN IF ~multiline THEN Parsed(pos + 1, acc)
         ELSE IF StartsWith(src, pos, <<DQ, DQ, DQ>>) THEN Parsed(pos + 3, acc)
         ELSE basic_str(src, pos + 1, multiline, Append(acc, DQ))
    ELSE IF src[pos] = BS
    THEN after_escape(src, multiline, acc, basic_str_escape(src, pos, multiline))
    ELSE IF src[pos] = NL /\ ~multiline THEN Fail
    ELSE basic_str(src, pos + 1, multiline, Append(acc, src[pos]))

\* parse_multiline_str at the closing delimiter: up to two quotes before it
\* belong to the value.
closing_quotes(src, r) ==
    IF ~r.ok THEN Fail
    ELSE IF ~StartsWith(src, r.pos, <<DQ>>) THEN r
    ELSE IF ~StartsWith(src, r.pos + 1, <<DQ>>) THEN Parsed(r.pos + 1, Append(r.val, DQ))
    ELSE Parsed(r.pos + 2, r.val \o <<DQ, DQ>>)

\* parse_multiline_str: src[pos..pos+2] is the opening delimiter; one newline
\* right after it is dropped.
multiline_str(src, pos) ==
    closing_quotes(src, basic_str(src, IF StartsWith(src, pos + 3, <<NL>>) THEN pos + 4 ELSE pos + 3,
                                  TRUE, <<>>))

\* parse_value, for a string.
parse_str(src, pos) ==
    IF StartsWith(src, pos, <<DQ, DQ, DQ>>) THEN multiline_str(src, pos)
    ELSE IF StartsWith(src, pos, <<DQ>>) THEN basic_str(src, pos + 1, FALSE, <<>>)
    ELSE Fail

RECURSIVE array_items(_, _, _)
\* parse_array after a comma and the blanks that follow it.
after_comma(src, q, items) ==
    IF q > Len(src) THEN Fail
    ELSE IF src[q] = RB THEN Parsed(q + 1, items)
    ELSE array_items(src, q, items)

\* parse_array after an item and the blanks that follow it.
after_item(src, p, items) ==
    IF p > Len(src) THEN Fail
    ELSE IF src[p] = RB THEN Parsed(p + 1, items)
    ELSE IF src[p] # CM THEN Fail
    ELSE after_comma(src, skip_chars(src, p + 1, {SP, NL}), items)

\* parse_array with the item v parsed.
with_item(src, acc, v) ==
    IF ~v.ok THEN Fail
    ELSE after_item(src, skip_chars(src, v.pos, {SP, NL}), Append(acc, v.val))

\* parse_array after the opening bracket: pos is at the next item.
array_items(src, pos, acc) == with_item(src, acc, parse_str(src, pos))

\* parse_array after the opening bracket and the blanks that follow it.
first_item(src, p) ==
    IF p > Len(src) THEN Fail
    ELSE IF src[p] = RB THEN Parsed(p + 1, <<>>)
    ELSE array_items(src, p, <<>>)

parse_array(src, pos) ==
    IF ~StartsWith(src, pos, <<LB>>) THEN Fail
    ELSE first_item(src, skip_chars(src, pos + 1, {SP, NL}))

\* A key = value statement: the value r must end the statement.
whole_value(text, r) == IF r.ok /\ r.pos = Len(text) + 1 THEN r ELSE Fail

load_str(text) == whole_value(text, parse_str(text, 1))

load_list(text) == whole_value(text, parse_array(text, 1))

(***************************************************************************)
(* Recipes.  A recipe dict is a function from the six fields to an         *)
(* optional value: <<>> when the key is absent, <<v>> when it is v.  deps  *)
(* and post_install are flattened to their keys.  A file is its kind and,  *)
(* for a TOML file, the text of the value written for each key.            *)
(***************************************************************************)
StrFields == {"name", "python", "description"}
ListFields == {"packages", "pinned", "commands"}
Fields == StrFields \cup ListFields

EmptyRecipe == [f \in Fields |-> <<>>]
NoFile == [kind |-> "none", body |-> EmptyRecipe, text |-> <<>>]
BadFile == [kind |-> "bad", body |-> EmptyRecipe, text |-> <<>>]
TomlFile(body) == [kind |-> "toml", body |-> body, text |-> <<>>]
TextFile(text) == [kind |-> "text", body |-> EmptyRecipe, text |-> text]

\* write_recipe_toml: the text put in the file for each key; a key that is
\* absent, and a list that is empty, is not written.
write_recipe_toml(recipe) ==
    TomlFile([f \in Fields |->
        IF recipe[f] = <<>> THEN <<>>
        ELSE IF f \in StrFields THEN <<toml_value_str(recipe[f][1])>>
        ELSE IF recipe[f][1] = <<>> THEN <<>>
        ELSE <<toml_value_list(recipe[f][1])>>])

LoadField(f, text) == IF f \in StrFields THEN load_str(text) ELSE load_list(text)

\* The recipe of the values loaded for the keys, where all of them parsed.
LoadedRecipe(loaded) ==
    IF \A f \in Fields : loaded[f].ok
    THEN [ok |-> TRUE,
          recipe |-> [f \in Fields |-> IF loaded[f].pos = 0 THEN <<>> ELSE <<loaded[f].val>>]]
    ELSE [ok |-> FALSE, recipe |-> EmptyRecipe]

read_recipe_lenient(file) ==
    IF file.kind = "toml"
    THEN LoadedRecipe([f \in Fields |->
             IF file.body[f] = <<>> THEN Parsed(0, <<>>) ELSE LoadField(f, file.body[f][1])])
    ELSE [ok |-> file.kind = "bad", recipe |-> EmptyRecipe]

\* read_recipe_toml: tomllib.load raises when any statement does not parse.
\* A key that is not in the file is loaded as Parsed(0, <<>>).
read_recipe_toml(file) ==
    IF file.kind = "toml"
    THEN LoadedRecipe([f \in Fields |->
             IF file.body[f] = <<>> THEN Parsed(0, <<>>) ELSE LoadField(f, file.body[f][1])])
    ELSE [ok |-> FALSE, recipe |-> EmptyRecipe]

(***************************************************************************)
(* The command dispatcher.  An argv word is a string; an option or a       *)
(* subcommand word is written W("--force").  main and the two sub-         *)
(* dispatchers return the handler they call with its arguments, or Usage   *)
(* where the code prints a usage line and returns 1.                       *)
(***************************************************************************)
W(s) == <<s>>
None == <<>>
Some(v) == <<v>>

Call(h, a) == [h |-> h, a |-> a]
Usage == Call("usage", [x |-> 0])
Help == Call("cmd_help", [x |-> 0])
UnknownSub(level) == Call("unknown", [level |-> level])

RECURSIVE export_opts(_, _, _)
\* cmd_recipe, export: the while loop over rest[1:].
export_opts(rest, i, output) ==
    IF i > Len(rest) THEN output
    ELSE IF rest[i] \in {W("--output"), W("-o")} /\ i + 1 <= Len(rest)
    THEN export_opts(rest, i + 2, Some(rest[i + 1]))
    ELSE export_opts(rest, i + 1, output)

RECURSIVE apply_opts(_, _, _)
\* cmd_recipe, apply: the while loop over rest[1:].
apply_opts(rest, i, acc) ==
    IF i > Len(rest) THEN acc
    ELSE IF rest[i] \in {W("--name"), W("-n")} /\ i + 1 <= Len(rest)
    THEN apply_opts(rest, i + 2, [acc EXCEPT !.name = Some(rest[i + 1])])
    ELSE IF rest[i] = W("--pinned")
    THEN apply_opts(rest, i + 1, [acc EXCEPT !.use_pinned = TRUE])
    ELSE IF rest[i] = W("--allow-scripts")
    THEN apply_opts(rest, i + 1, [acc EXCEPT !.allow_scripts = TRUE])
    ELSE apply_opts(rest, i + 1, acc)

RECURSIVE post_opts(_, _, _)
\* cmd_recipe, post: the while loop over rest[1:].
post_opts(rest, i, acc) ==
    IF i > Len(rest) THEN acc
    ELSE IF rest[i] = W("--add") /\ i + 1 <= Len(rest)
    THEN post_opts(rest, i + 2,
             [acc EXCEPT !.commands = Append(@, rest[i + 1]), !.append = TRUE])
    ELSE IF rest[i] = W("--set") /\ i + 1 <= Len(rest)
    THEN post_opts(rest, i + 2,
             [acc EXCEPT !.commands = Append(@, rest[i + 1]), !.append = FALSE])
    ELSE IF rest[i] = W("--from") /\ i + 1 <= Len(rest)
    THEN post_opts(rest, i + 2, [acc EXCEPT !.from_file = Some(rest[i + 1])])
    ELSE post_opts(rest, i + 1, acc)

RECURSIVE JoinSpace(_)
\* " ".join(words)
JoinSpace(words) ==
    IF words = <<>> THEN <<>>
    ELSE IF Len(words) = 1 THEN Head(words)
    ELSE Head(words) \o <<SP>> \o JoinSpace(Tail(words))

\* cmd_recipe: up to the call of the handler.
cmd_recipe(args) ==
    IF args = <<>> THEN Usage
    ELSE LET sub == Head(args)
             rest == Tail(args)
         IN  IF sub = W("export")
             THEN IF rest = <<>> THEN Usage
                  ELSE Call("cmd_recipe_export",
                            [name |-> rest[1], output |-> export_opts(rest, 2, None)])
             ELSE IF sub = W("apply")
             THEN IF rest = <<>> THEN Usage
                  ELSE Call("cmd_recipe_apply",
                            apply_opts(rest, 2, [recipe_file |-> rest[1], name |-> None,
                                                 use_pinned |-> FALSE,
                                                 allow_scripts |-> FALSE]))
             ELSE IF sub = W("show")
             THEN IF rest = <<>> THEN Usage
                  ELSE Call("cmd_recipe_show", [name |-> rest[1]])
             ELSE IF sub = W("describe")
             THEN IF Len(rest) < 2 THEN Usage
                  ELSE Call("cmd_recipe_describe",
                            [name |-> rest[1], description |-> JoinSpace(Tail(rest))])
             ELSE IF sub = W("edit")
             THEN IF rest = <<>> THEN Usage
                  ELSE Call("cmd_recipe_edit", [name |-> rest[1]])
             ELSE IF sub = W("post")
             THEN IF rest = <<>> THEN Usage
                  ELSE Call("recipe_post",
                            post_opts(rest, 2, [name |-> rest[1], commands |-> <<>>,
                                                append |-> TRUE, from_file |-> None]))
             ELSE UnknownSub("recipe")

\* cmd_config: up to the call of the handler.
cmd_config(args) ==
    IF args = <<>> THEN Call("cmd_config_show", [x |-> 0])
    ELSE LET sub == Head(args)
             rest == Tail(args)
         IN  IF sub = W("path") THEN Call("config_path", [x |-> 0])
             ELSE IF sub = W("edit") THEN Call("cmd_config_edit", [x |-> 0])
             ELSE IF sub = W("init") THEN Call("cmd_config_init", [x |-> 0])
             ELSE IF sub = W("set")
             THEN IF Len(rest) < 2 THEN Usage
                  ELSE Call("cmd_config_set", [key |-> rest[1], value |-> rest[2]])
             ELSE IF sub \in {W("--help"), W("-h"), W("help")}
             THEN Call("config_help", [x |-> 0])
             ELSE UnknownSub("config")

main_fallthrough == Help

\* main: up to the call of the handler.
main(argv) ==
    IF argv = <<>> THEN Help
    ELSE LET sub == Head(argv)
             rest == Tail(argv)
         IN  IF sub \in {W("help"), W("--help"), W("-h")} THEN Help
             ELSE IF sub = W("list") THEN Call("cmd_list", [x |-> 0])
             ELSE IF sub \in {W("create"), W("mk")}
             THEN IF rest = <<>> THEN Usage
                  ELSE Call("cmd_create", [name |-> rest[1], extra |-> Tail(rest)])
             ELSE IF sub = W("path")
             THEN IF rest = <<>> THEN Usage
                  ELSE Call("cmd_path", [name |-> rest[1]])
             ELSE IF sub \in {W("delete"), W("rm")}
             THEN IF rest = <<>> THEN Usage
                  ELSE Call("cmd_delete",
                            [name |-> rest[1],
                             force |-> W("--force") \in Range(rest) \/ W("-f") \in Range(rest)])
             ELSE IF sub \in {W("spawn"), W("shell")}
             THEN IF rest = <<>> THEN Usage
                  ELSE Call("cmd_spawn",
                            [name |-> rest[1],
                             shell |-> IF Len(rest) > 1 THEN Some(rest[2]) ELSE None])
             ELSE IF sub = W("recipe") THEN cmd_recipe(rest)
             ELSE IF sub = W("config") THEN cmd_config(rest)
             ELSE IF sub = W("describe")
             THEN IF rest = <<>> THEN Usage
                  ELSE IF Len(rest) < 2 THEN Call("cmd_info", [name |-> rest[1]])
                  ELSE Call("cmd_recipe_describe",
                            [name |-> rest[1], description |-> JoinSpace(Tail(rest))])
             ELSE IF sub = W("info")
             THEN IF rest = <<>> THEN Usage
                  ELSE Call("cmd_info", [name |-> rest[1]])
             ELSE main_fallthrough

\* The exit code of the calls that end in the dispatcher itself.
ExitsInDispatcher(call) ==
    call.h \in {"usage", "unknown", "cmd_help", "config_help", "config_path", "cmd_path"}

DispatcherExit(call) == IF call.h \in {"usage", "unknown"} THEN 1 ELSE 0

(***************************************************************************)
(* State                                                                   *)
(***************************************************************************)
VARIABLES
    dirs,     \* what is at each environment path: nothing, a file, a directory
    files,    \* the files outside the environments (recipes, command lists)
    cfgfile,  \* the config file at config_path()
    cache,    \* _config_cache of each process
    proc,     \* each process: the command it runs or ran last, and its outcome
    fn        \* input and output of a function applied on its own

vars == <<dirs, files, cfgfile, cache, proc, fn>>

Procs == {1, 2}

\* Strings over an alphabet, up to a length.
Alphabet == {"x", "n", DQ, BS, NL}
StrsUpTo(chars, n) == UNION {[1..k -> chars] : k \in 0..n}

\* The files outside the environments.
SrcPath == W("src.toml")
OutPath == W("out.toml")
CmdsPath == W("cmds.txt")
ExtPaths == {SrcPath, OutPath, CmdsPath}

\* The keys of the config file, and the file: its kind and, for a TOML file,
\* the text of the value written for each key.
ConfigKeys == {W("home"), W("shell"), W("editor")}
EmptyConfig == [k \in ConfigKeys |-> <<>>]
NoConfigFile == [kind |-> "none", body |-> EmptyConfig]
BadConfigFile == [kind |-> "bad", body |-> EmptyConfig]

NoDirs == [path \in {} |-> NoFile]
NoFiles == [path \in ExtPaths |-> NoFile]

\* A process that runs no command.
NoProc(pc) ==
    [pc |-> pc, argv |-> <<>>, call |-> Help, rc |-> None, calls |-> <<>>,
     recipe |-> EmptyRecipe, target |-> <<>>, k |-> 0, asked |-> FALSE, answer |-> None,
     out |-> <<>>, stdout |-> <<>>, env |-> None]

NoFn == [op |-> "none", pc |-> "none", in |-> EmptyRecipe, out |-> [ok |-> FALSE, recipe |-> EmptyRecipe]]

(***************************************************************************)
(* The command dispatcher on its own: main applied to an argv.             *)
(***************************************************************************)
MaxArgs == 3

CliWords ==
    {W("recipe"), W("config"), W("create"), W("delete"), W("describe"), W("info"),
     W("export"), W("apply"), W("post"), W("set"), W("help"), W("bogus"), W("A")}

CliArgvs == StrsUpTo(CliWords, MaxArgs)

\* The first words main recognizes.
TopLevelWords ==
    {W("help"), W("--help"), W("-h"), W("list"), W("create"), W("mk"), W("path"),
     W("delete"), W("rm"), W("spawn"), W("shell"), W("recipe"), W("config"),
     W("describe"), W("info")}

RecipeWords == {W("export"), W("apply"), W("show"), W("describe"), W("edit"), W("post")}

ConfigWords == {W("path"), W("edit"), W("init"), W("set"), W("--help"), W("-h"), W("help")}

\* main(argv) as far as the handler it calls; rc is set where the dispatcher
\* itself returns.
CliMain(p) ==
    /\ proc[p].pc = "start"
    /\ LET call == main(proc[p].argv) IN
       proc' = [proc EXCEPT ![p].pc = "dispatched",
                            ![p].call = call,
                            ![p].rc = IF ExitsInDispatcher(call)
                                      THEN Some(DispatcherExit(call)) ELSE None]
    /\ UNCHANGED <<dirs, files, cfgfile, cache, fn>>

(***************************************************************************)
(* The recipe writer and reader on their own: a recipe is written to a     *)
(* file and the file is read back.                                         *)
(***************************************************************************)
\* The recipe of the round-trip example: every field present.
FooRecipe ==
    [name |-> Some(<<"f", "o", "o">>), python |-> Some(<<"3", ".", "1", "1">>),
     description |-> Some(<<"d">>), packages |-> Some(<< <<"a">>, <<"b">> >>),
     pinned |-> Some(<< <<"a", "=", "=", "1">> >>), commands |-> Some(<< <<"e">> >>)]

Xs(n) == [i \in 1..n |-> "x"]

\* Lists around the inline limit of _toml_value.
LongLists ==
    {<<Xs(InlineListMax \div 2), Xs(InlineListMax \div 2)>>,
     <<Xs(InlineListMax \div 2 + 1), Xs(InlineListMax \div 2)>>}

\* FooRecipe with one field replaced: a string field by any string, a list
\* field by a list holding any string, alone or after another item.
CodecInputs ==
    {[FooRecipe EXCEPT ![f] = Some(v)] : f \in StrFields, v \in StrsUpTo(Alphabet, MaxStrLen)}
    \cup {[FooRecipe EXCEPT ![f] = Some(<<v>>)] : f \in ListFields, v \in StrsUpTo(Alphabet, MaxStrLen)}
    \cup {[FooRecipe EXCEPT ![f] = Some(<< <<"a">>, v >>)] : f \in ListFields, v \in StrsUpTo(Alphabet, MaxStrLen)}
    \cup {[FooRecipe EXCEPT ![f] = Some(l)] : f \in ListFields, l \in LongLists}

CodecWrite ==
    /\ fn.op = "codec" /\ fn.pc = "start"
    /\ files' = [files EXCEPT ![OutPath] = write_recipe_toml(fn.in)]
    /\ fn' = [fn EXCEPT !.pc = "written"]
    /\ UNCHANGED <<dirs, cfgfile, cache, proc>>

CodecRead ==
    /\ fn.op = "codec" /\ fn.pc = "written"
    /\ fn' = [fn EXCEPT !.pc = "read", !.out = read_recipe_toml(files[OutPath])]
    /\ UNCHANGED <<dirs, files, cfgfile, cache, proc>>

InitCodec ==
    /\ dirs = NoDirs
    /\ files = NoFiles
    /\ cfgfile = NoConfigFile
    /\ cache = [p \in Procs |-> None]
    /\ proc = [p \in Procs |-> NoProc("off")]
    /\ fn \in {[NoFn EXCEPT !.op = "codec", !.pc = "start", !.in = r] : r \in CodecInputs}

NextCodec == CodecWrite \/ CodecRead

SpecCodec == InitCodec /\ [][NextCodec]_vars

InitCli ==
    /\ dirs = NoDirs
    /\ files = NoFiles
    /\ cfgfile = NoConfigFile
    /\ cache = [p \in Procs |-> None]
    /\ proc \in {[p \in Procs |-> IF p = 1 THEN [NoProc("start") EXCEPT !.argv = a]
                                   ELSE NoProc("off")] : a \in CliArgvs}
    /\ fn = NoFn

NextCli == \E p \in Procs : CliMain(p)

SpecCli == InitCli /\ [][NextCli]_vars

(***************************************************************************)
(* Configuration                                                           *)
(***************************************************************************)
\* _load_config: the settings of the config file; {} when there is no file
\* or it does not parse.
load_config ==
    IF /\ cfgfile.kind = "toml"
       /\ \A k \in ConfigKeys : cfgfile.body[k] # <<>> => load_str(cfgfile.body[k][1]).ok
    THEN [k \in ConfigKeys |->
             IF cfgfile.body[k] = <<>> THEN <<>> ELSE <<load_str(cfgfile.body[k][1]).val>>]
    ELSE EmptyConfig

\* get_config: the cached settings, loaded on first use.
get_config(p) == IF cache[p] = None THEN load_config ELSE cache[p][1]

\* The cache after a call of get_config.
CacheLoaded(p) == [cache EXCEPT ![p] = Some(get_config(p))]

\* write_config: the recognized keys the dict holds, each as a TOML string.
write_config(cfg) ==
    [kind |-> "toml",
     body |-> [k \in ConfigKeys |->
                  IF cfg[k] = <<>> THEN <<>> ELSE <<toml_value_str(cfg[k][1])>>]]

\* create_default_config: a file of comments, no key set.
DefaultConfigFile == [kind |-> "toml", body |-> EmptyConfig]

valid_keys_any(key) == TRUE

\* cmd_config_set: key in valid_keys.
valid_keys(key) == key \in ConfigKeys

\* A command that ran to its end: back to idle with its exit code.
Finished(argv, call, rc, calls) ==
    [NoProc("idle") EXCEPT !.argv = argv, !.call = call, !.rc = Some(rc), !.calls = calls]

\* The values `config set` is given.
ConfigValues == {<<>>, W("/alt"), W("zsh"), <<"x", NL>>}

ConfigSetArgvs ==
    {<<W("config"), W("set"), k, v>> : k \in ConfigKeys \cup {W("bogus")}, v \in ConfigValues}

\* cmd_config_set, through main and cmd_config.
ConfigSet(p) ==
    /\ proc[p].pc = "idle"
    /\ \E argv \in ConfigSetArgvs :
        LET call == main(argv)
            key == call.a.key
            cfg == [k \in ConfigKeys |-> IF k = key THEN Some(call.a.value) ELSE get_config(p)[k]]
        IN  /\ call.h = "cmd_config_set"
            /\ IF ~valid_keys(key)
               THEN /\ proc' = [proc EXCEPT ![p] = Finished(argv, call, 1, <<>>)]
                    /\ UNCHANGED <<cfgfile, cache>>
               ELSE /\ \A k \in ConfigKeys : cfg[k] # <<>> => Len(cfg[k][1]) <= MaxTextLen
                    /\ cfgfile' = write_config(cfg)
                    /\ cache' = [cache EXCEPT ![p] = None]
                    /\ proc' = [proc EXCEPT ![p] = Finished(argv, call, 0, <<>>)]
    /\ UNCHANGED <<dirs, files, fn>>

\* cmd_config_init
ConfigInit(p) ==
    /\ proc[p].pc = "idle"
    /\ LET argv == <<W("config"), W("init")>> IN
       /\ main(argv).h = "cmd_config_init"
       /\ cfgfile' = IF cfgfile.kind # "none" THEN cfgfile ELSE DefaultConfigFile
       /\ proc' = [proc EXCEPT ![p] = Finished(argv, main(argv), 0, <<>>)]
    /\ UNCHANGED <<dirs, files, cache, fn>>

\* cmd_config_show: reads the settings, which loads the cache.
ConfigShow(p) ==
    /\ proc[p].pc = "idle"
    /\ LET argv == <<W("config")>> IN
       /\ main(argv).h = "cmd_config_show"
       /\ cache' = CacheLoaded(p)
       /\ proc' = [proc EXCEPT ![p] = Finished(argv, main(argv), 0, <<>>)]
    /\ UNCHANGED <<dirs, files, cfgfile, fn>>

\* The config files a user leaves after editing: unparseable, or some keys set.
EditedConfigs ==
    {BadConfigFile,
     write_config([EmptyConfig EXCEPT ![W("home")] = Some(W("/alt"))]),
     write_config([EmptyConfig EXCEPT ![W("shell")] = Some(W("zsh"))])}

\* cmd_config_edit: creates the default file when there is none, then runs the
\* editor, which leaves any file behind; returns the editor's exit code.
ConfigEdit(p) ==
    /\ proc[p].pc = "idle"
    /\ LET argv == <<W("config"), W("edit")>> IN
       /\ main(argv).h = "cmd_config_edit"
       /\ \E edited \in EditedConfigs \cup {IF cfgfile.kind = "none" THEN DefaultConfigFile ELSE cfgfile},
             code \in {0, 1} :
            /\ cfgfile' = edited
            /\ cache' = CacheLoaded(p)
            /\ proc' = [proc EXCEPT ![p] =
                           Finished(argv, main(argv), code,
                                    <<[tool |-> "editor", target |-> <<W("config.toml")>>,
                                       args |-> <<>>, rc |-> code]>>)]
    /\ UNCHANGED <<dirs, files, fn>>

\* The process ends and the next one starts: the cache is per process.
NewProcess(p) ==
    /\ proc[p].pc = "idle"
    /\ cache[p] # None
    /\ cache' = [cache EXCEPT ![p] = None]
    /\ proc' = [proc EXCEPT ![p] = NoProc("idle")]
    /\ UNCHANGED <<dirs, files, cfgfile, fn>>

InitConfig ==
    /\ dirs = NoDirs
    /\ files = NoFiles
    /\ cfgfile = NoConfigFile
    /\ cache = [p \in Procs |-> None]
    /\ proc = [p \in Procs |-> IF p = 1 THEN NoProc("idle") ELSE NoProc("off")]
    /\ fn = NoFn

NextConfig ==
    \E p \in Procs :
        \/ ConfigSet(p)
        \/ ConfigInit(p)
        \/ ConfigShow(p)
        \/ ConfigEdit(p)
        \/ NewProcess(p)

SpecConfig == InitConfig /\ [][NextConfig]_vars

\* A step of process p.
StepOf(p) == proc'[p] # proc[p]

\* p has just run this handler to its end.
Ran(p, h) == proc[p].pc = "idle" /\ proc[p].rc # None /\ proc[p].call.h = h

\* C4: `config set <key> <value>` with a key outside home, shell, editor
\* returns exit code 1 and leaves the config file and the cached
\* configuration as they were.
C4_ConfigSetBadKey ==
    [][\A p \in Procs :
        (StepOf(p) /\ Ran(p, "cmd_config_set")' /\ proc'[p].call.a.key \notin ConfigKeys)
        => (proc'[p].rc = Some(1) /\ cfgfile' = cfgfile /\ cache' = cache)]_vars

C4_Witness ==
    \E p \in Procs :
        /\ Ran(p, "cmd_config_set")
        /\ proc[p].call.a.key = W("bogus")
        /\ proc[p].rc = Some(1)
        /\ cfgfile.kind = "toml"
        /\ cfgfile.body[W("home")] # <<>>
        /\ cache[p] # None

(***************************************************************************)
(* Paths and environments.  A path is the sequence of its components.  An  *)
(* environment path that is in dirs holds a plain file or a directory; a   *)
(* directory has or lacks the interpreter (bin/python), pyvenv.cfg (its    *)
(* lines, when there) and recipe.toml.                                     *)
(***************************************************************************)
default_base_dir == <<W("~"), W(".uvcond")>>

config_path == default_base_dir \o <<W("config.toml")>>

base_dir_default(p) == default_base_dir

\* base_dir: the home setting when it is set and not empty.
base_dir(p) ==
    LET home == get_config(p)[W("home")] IN
    IF home # <<>> /\ home[1] # <<>> THEN <<home[1]>> ELSE default_base_dir

env_dir(p, name) == base_dir(p) \o <<name>>

recipe_path(env_path) == env_path \o <<W("recipe.toml")>>

PlainFile == [kind |-> "file", py |-> FALSE, cfg |-> None, recipe |-> NoFile, bin |-> "none"]

\* A directory; bin is "none" without a bin subdirectory, "dir" with one that
\* has no activate script, "activate" with the script.  The interpreter is
\* bin/python, and the venv tool writes the script next to it.
Dir(py, cfg, recipe) ==
    [kind |-> "dir", py |-> py, cfg |-> cfg, recipe |-> recipe,
     bin |-> IF py THEN "activate" ELSE "none"]

Exists(path) == path \in DOMAIN dirs
IsDir(path) == Exists(path) /\ dirs[path].kind = "dir"

\* The file at a path given on the command line.
FileAt(path) == IF path \in DOMAIN files THEN files[path] ELSE NoFile

\* shutil.rmtree
Removed(path) == [q \in DOMAIN dirs \ {path} |-> dirs[q]]

\* The directory at path with its recipe.toml replaced.
WithRecipe(path, file) == [dirs EXCEPT ![path].recipe = file]

\* str.strip
Whitespace == {SP, NL}
RECURSIVE lstrip(_)
lstrip(s) == IF s # <<>> /\ Head(s) \in Whitespace THEN lstrip(Tail(s)) ELSE s
RECURSIVE rstrip(_)
rstrip(s) ==
    IF s # <<>> /\ s[Len(s)] \in Whitespace THEN rstrip(SubSeq(s, 1, Len(s) - 1)) ELSE s
strip(s) == lstrip(rstrip(s))

\* The position of the first c in s from position i on, 0 when there is none.
RECURSIVE Find(_, _, _)
Find(s, c, i) == IF i > Len(s) THEN 0 ELSE IF s[i] = c THEN i ELSE Find(s, c, i + 1)

\* get_python_version on the lines of pyvenv.cfg: the first line that starts
\* with "version", has an "=" and two dot-separated parts after it.
RECURSIVE version_of_lines(_)
version_of_lines(lines) ==
    IF lines = <<>> THEN None
    ELSE LET line == Head(lines)
             eq == Find(line, "=", 1)
             version == strip(SubSeq(line, eq + 1, Len(line)))
             dot1 == Find(version, ".", 1)
             dot2 == Find(version, ".", dot1 + 1)
         IN  IF /\ StartsWith(strip(line), 1, <<"version">>)
                /\ eq # 0
                /\ dot1 # 0
             THEN Some(SubSeq(version, 1, IF dot2 = 0 THEN Len(version) ELSE dot2 - 1))
             ELSE version_of_lines(Tail(lines))

get_python_version(env_path) ==
    IF IsDir(env_path) /\ dirs[env_path].cfg # None
    THEN version_of_lines(dirs[env_path].cfg[1])
    ELSE None

\* get_python_executable: is there an interpreter at bin/python.
get_python_executable(env_path) == IsDir(env_path) /\ dirs[env_path].py

\* The pyvenv.cfg the venv tool writes for a Python version.
Py311 == <<"3", ".", "11">>
Py312 == <<"3", ".", "12">>
VenvCfg(ver) ==
    << <<"home", SP, "=", SP, "/usr/bin">>,
       <<"version", "_info", SP, "=", SP>> \o ver \o <<".", "5">> >>

(***************************************************************************)
(* The external tools.  Each invocation is recorded with its exit code.    *)
(***************************************************************************)
ToolCall(tool, target, args, rc) == [tool |-> tool, target |-> target, args |-> args, rc |-> rc]

\* The Python versions the venv tool can provide.
KnownPythons == {Py311, Py312}

\* `uv venv target [--python ver]` run on the directories d: its exit code and
\* the directories it leaves.  It succeeds only for a version it can provide
\* and where no plain file is in the way, and leaves a fresh environment; when
\* it fails it leaves things as they were or a directory that is no venv.
VenvOutcomes(d, target, ver) ==
    {[rc |-> 0, dirs |-> (target :> Dir(py, Some(VenvCfg(IF ver = None THEN Py312 ELSE ver[1])), NoFile)) @@ d] :
        py \in IF (ver = None \/ ver[1] \in KnownPythons)
                  /\ ~(target \in DOMAIN d /\ d[target].kind = "file")
               THEN {TRUE, FALSE} ELSE {}}
    \cup {[rc |-> 2, dirs |-> d]}
    \cup {[rc |-> 2, dirs |-> (target :> Dir(FALSE, None, NoFile)) @@ d] :
        x \in IF target \in DOMAIN d THEN {} ELSE {0}}

\* Exit codes of the install tool and of a post-install command.
InstallCodes == {0, 2}
PostCodes == {0, 2, 3}

(***************************************************************************)
(* create and delete                                                       *)
(***************************************************************************)
NameA == W("A")
NameB == W("B")
Names == {NameA, NameB}

CreateArgvs == {<<W("create"), NameA>>, <<W("mk"), NameA, W("--python"), Py311>>}

\* The --python value among the arguments passed through to the venv tool.
PassedPython(extra) ==
    IF Len(extra) >= 2 /\ extra[1] = W("--python") THEN Some(extra[2]) ELSE None

\* cmd_create, through main.
Create(p) ==
    /\ proc[p].pc = "idle"
    /\ \E argv \in CreateArgvs : \E call \in {main(argv)} :
       \E target \in {env_dir(p, call.a.name)} :
            /\ call.h = "cmd_create"
            /\ \E o \in VenvOutcomes(dirs, target, PassedPython(call.a.extra)) :
                /\ dirs' = o.dirs
                /\ proc' = [proc EXCEPT ![p] =
                       [Finished(argv, call, o.rc,
                                 <<ToolCall("venv", target, call.a.extra, o.rc)>>)
                        EXCEPT !.target = target]]
    /\ cache' = CacheLoaded(p)
    /\ UNCHANGED <<files, cfgfile, fn>>

\* str.lower
LowerChar(c) ==
    CASE c = "Y" -> "y" [] c = "E" -> "e" [] c = "S" -> "s" [] c = "N" -> "n" [] OTHER -> c
lower(s) == [i \in 1..Len(s) |-> LowerChar(s[i])]

\* The answers typed at the prompt; None stands for EOF or an interrupt.
Answers ==
    {<<"y">>, <<SP, "Y", "E", "S", NL>>, <<"y", "e">>, <<"y", SP, "y">>, <<"n">>, <<>>}

DeleteArgvs ==
    {<<W("delete"), n>> : n \in Names}
    \cup {<<W("delete"), n, W("--force")>> : n \in Names}
    \cup {<<W("rm"), NameA, W("-f")>>}

confirm_any(answer) == TRUE

\* cmd_delete: confirm in {"y", "yes"}, confirm being the answer stripped and
\* lower-cased.
confirmed(answer) == lower(strip(answer)) \in {<<"y">>, <<"y", "e", "s">>}

\* cmd_delete, through main.
Delete(p) ==
    /\ proc[p].pc = "idle"
    /\ \E argv \in DeleteArgvs : \E call \in {main(argv)} :
       \E target \in {env_dir(p, call.a.name)} :
       \E done \in {[Finished(argv, call, 0, <<>>) EXCEPT !.target = target]} :
            /\ call.h = "cmd_delete"
            /\ IF ~IsDir(target)
               THEN /\ proc' = [proc EXCEPT ![p] = [done EXCEPT !.rc = Some(1)]]
                    /\ dirs' = dirs
               ELSE IF call.a.force
               THEN /\ proc' = [proc EXCEPT ![p] = done]
                    /\ dirs' = Removed(target)
               ELSE \E answer \in {Some(a) : a \in Answers} \cup {None} :
                    \E asked \in {[done EXCEPT !.asked = TRUE, !.answer = answer]} :
                    IF answer = None
                    THEN /\ proc' = [proc EXCEPT ![p] = [asked EXCEPT !.rc = Some(1)]]
                         /\ dirs' = dirs
                    ELSE IF ~confirmed(answer[1])
                    THEN /\ proc' = [proc EXCEPT ![p] = asked]
                         /\ dirs' = dirs
                    ELSE /\ proc' = [proc EXCEPT ![p] = asked]
                         /\ dirs' = Removed(target)
    /\ cache' = CacheLoaded(p)
    /\ UNCHANGED <<files, cfgfile, fn>>

(***************************************************************************)
(* recipe apply.  The handler is cut where it waits for an external        *)
(* process: a step runs from the return of one tool to the start of the    *)
(* next, or to the return of the handler.                                  *)
(***************************************************************************)
\* A Python value is truthy: an optional string that is set and not empty, an
\* optional list that is set and not empty.
Truthy(opt) == opt # <<>> /\ opt[1] # <<>>

\* dict.get(key, []) for a list
ListOf(opt) == IF opt = <<>> THEN <<>> ELSE opt[1]

Rcp(name, python, description, packages, pinned, commands) ==
    [name |-> name, python |-> python, description |-> description,
     packages |-> packages, pinned |-> pinned, commands |-> commands]

PkgA == <<"a">>
PinA == <<"a", "=", "=", "1">>
CmdX == <<"x">>
CmdY == <<"y">>
CmdML == <<"x", NL, "y">>
DescD == <<"d">>

\* The recipe files a user has written by hand (the file apply is given).
HandRecipes ==
    {write_recipe_toml(Rcp(Some(NameA), Some(Py311), None, Some(<<PkgA>>), Some(<<PinA>>),
                           Some(<<CmdX, CmdY>>))),
     write_recipe_toml(Rcp(Some(NameA), None, None, Some(<<PkgA>>), None, None)),
     write_recipe_toml(Rcp(Some(NameA), Some(Py311), None, None, Some(<<PinA>>), Some(<<CmdX>>))),
     \* no name; packages = [] and pinned = []
     TomlFile([EmptyRecipe EXCEPT !.python = Some(toml_value_str(Py311)),
                                  !.packages = Some(<<LB, RB>>),
                                  !.pinned = Some(<<LB, RB>>)]),
     \* description = "d"; commands = ["x\ny"], the newline written as an escape
     TomlFile([EmptyRecipe EXCEPT !.name = Some(toml_value_str(NameB)),
                                  !.python = Some(toml_value_str(Py312)),
                                  !.description = Some(toml_value_str(DescD)),
                                  !.commands = Some(<<LB, DQ, "x", BS, "n", "y", DQ, RB>>)]),
     \* no name, python or description; packages = ["a"]
     TomlFile([EmptyRecipe EXCEPT !.packages = Some(toml_value_list(<<PkgA>>))]),
     BadFile}

ApplyOpts ==
    {<<>>,
     <<W("--pinned")>>,
     <<W("--allow-scripts")>>,
     <<W("--pinned"), W("--allow-scripts")>>,
     <<W("--name"), NameB>>,
     <<W("-n"), NameB, W("--allow-scripts"), W("--pinned")>>,
     <<W("--allow-scripts"), W("--name")>>}

ApplyArgvs ==
    {<<W("recipe"), W("apply"), SrcPath>> \o opts : opts \in ApplyOpts}
    \cup {<<W("recipe"), W("apply"), W("missing.toml")>>,
          <<W("recipe"), W("apply"), OutPath>>}

\* cmd_recipe_apply: env_name = name or recipe.get("name"); <<>> when neither.
env_name_of(name, recipe) ==
    IF Truthy(name) THEN name[1]
    ELSE IF Truthy(recipe.name) THEN recipe.name[1]
    ELSE <<>>

target_exists_never(d, target) == FALSE

\* cmd_recipe_apply: target.exists()
target_exists(d, target) == target \in DOMAIN d

packages_always_unpinned(use_pinned, recipe) == ListOf(recipe.packages)

\* cmd_recipe_apply: the list handed to the install tool, [] for none.
packages_to_install(use_pinned, recipe) ==
    IF use_pinned /\ Truthy(recipe.pinned) THEN recipe.pinned[1]
    ELSE IF Truthy(recipe.packages) THEN recipe.packages[1]
    ELSE <<>>

run_scripts_always(allow_scripts, commands) == commands # <<>>

\* cmd_recipe_apply: commands and allow_scripts
run_scripts(allow_scripts, commands) == commands # <<>> /\ allow_scripts

\* The end of cmd_recipe_apply: the recipe is saved into the environment.
save_if_absent(rec, d) ==
    IF rec.target \in DOMAIN d /\ d[rec.target].kind = "dir"
    THEN [proc |-> [rec EXCEPT !.pc = "idle", !.rc = Some(0)],
          dirs |-> IF d[rec.target].recipe = NoFile
                   THEN [d EXCEPT ![rec.target].recipe = write_recipe_toml(rec.recipe)]
                   ELSE d]
    ELSE [proc |-> [rec EXCEPT !.pc = "idle", !.rc = Some(1)], dirs |-> d]

\* Writing into a directory that is not there raises, and the process exits
\* with code 1.
SaveRecipe(rec, d) ==
    IF rec.target \in DOMAIN d /\ d[rec.target].kind = "dir"
    THEN [proc |-> [rec EXCEPT !.pc = "idle", !.rc = Some(0)],
          dirs |-> [d EXCEPT ![rec.target].recipe = write_recipe_toml(rec.recipe)]]
    ELSE [proc |-> [rec EXCEPT !.pc = "idle", !.rc = Some(1)], dirs |-> d]

failed_with_one(rec, d, rc) == [proc |-> [rec EXCEPT !.pc = "idle", !.rc = Some(1)], dirs |-> d]

failed_rolled_back(rec, d, rc) ==
    [proc |-> [rec EXCEPT !.pc = "idle", !.rc = Some(rc)],
     dirs |-> [q \in DOMAIN d \ {rec.target} |-> d[q]]]

\* A tool has returned a code that is not 0: apply returns it.
Failed(rec, d, rc) == [proc |-> [rec EXCEPT !.pc = "idle", !.rc = Some(rc)], dirs |-> d]

\* After the install step: the post-install commands, or the end.
AfterInstall(rec, d) ==
    IF run_scripts(rec.call.a.allow_scripts, ListOf(rec.recipe.commands))
    THEN [proc |-> [rec EXCEPT !.pc = "post", !.k = 1], dirs |-> d]
    ELSE SaveRecipe(rec, d)

\* After the venv step: the install step, when there is something to install.
AfterVenv(rec, d) ==
    IF packages_to_install(rec.call.a.use_pinned, rec.recipe) # <<>>
    THEN IF ~(rec.target \in DOMAIN d /\ d[rec.target].kind = "dir" /\ d[rec.target].py)
         THEN Failed(rec, d, 1)
         ELSE [proc |-> [rec EXCEPT !.pc = "install"], dirs |-> d]
    ELSE AfterInstall(rec, d)

\* cmd_recipe_apply from its start to the call of the venv tool.
ApplyStart(p) ==
    /\ proc[p].pc = "idle"
    /\ \E argv \in ApplyArgvs : \E call \in {main(argv)} :
       /\ call.h = "cmd_recipe_apply"
       /\ \E src \in {FileAt(call.a.recipe_file)} :
          \E r \in {read_recipe_toml(src)} :
          \E env_name \in {env_name_of(call.a.name, r.recipe)} :
          \E failed \in {Finished(argv, call, 1, <<>>)} :
            IF src.kind = "none" \/ ~r.ok \/ env_name = <<>>
            THEN /\ proc' = [proc EXCEPT ![p] = failed]
                 /\ cache' = cache
            ELSE \E target \in {env_dir(p, env_name)} :
                 /\ cache' = CacheLoaded(p)
                 /\ IF target_exists(dirs, target)
                    THEN proc' = [proc EXCEPT ![p] = [failed EXCEPT !.target = target,
                                                                    !.recipe = r.recipe]]
                    ELSE proc' = [proc EXCEPT ![p] =
                             [NoProc("venv") EXCEPT !.argv = argv, !.call = call,
                                                    !.recipe = r.recipe, !.target = target]]
    /\ UNCHANGED <<dirs, files, cfgfile, fn>>

\* The venv tool returns.
ApplyVenv(p) ==
    /\ proc[p].pc = "venv"
    /\ \E rec \in {proc[p]} :
       \E ver \in {IF Truthy(rec.recipe.python) THEN rec.recipe.python ELSE None} :
       \E args \in {IF ver = None THEN <<>> ELSE <<W("--python"), ver[1]>>} :
       \E o \in VenvOutcomes(dirs, rec.target, ver) :
       \E rec2 \in {[rec EXCEPT !.calls = Append(@, ToolCall("venv", rec.target, args, o.rc))]} :
       \E next \in {IF o.rc # 0 THEN Failed(rec2, o.dirs, o.rc) ELSE AfterVenv(rec2, o.dirs)} :
            /\ proc' = [proc EXCEPT ![p] = next.proc]
            /\ dirs' = next.dirs
    /\ UNCHANGED <<files, cfgfile, cache, fn>>

\* The install tool returns.
ApplyInstall(p) ==
    /\ proc[p].pc = "install"
    /\ \E rec \in {proc[p]} :
       \E rc \in InstallCodes :
       \E rec2 \in {[rec EXCEPT !.calls =
                        Append(@, ToolCall("install", rec.target,
                                           packages_to_install(rec.call.a.use_pinned, rec.recipe),
                                           rc))]} :
       \E next \in {IF rc # 0 THEN Failed(rec2, dirs, rc) ELSE AfterInstall(rec2, dirs)} :
            /\ proc' = [proc EXCEPT ![p] = next.proc]
            /\ dirs' = next.dirs
    /\ UNCHANGED <<files, cfgfile, cache, fn>>

\* A post-install command returns.
ApplyPost(p) ==
    /\ proc[p].pc = "post"
    /\ \E rec \in {proc[p]} :
       \E commands \in {ListOf(rec.recipe.commands)} :
       \E rc \in PostCodes :
       \E rec2 \in {[rec EXCEPT !.calls =
                        Append(@, ToolCall("post", rec.target, <<commands[rec.k]>>, rc))]} :
       \E next \in {IF rc # 0 THEN Failed(rec2, dirs, rc)
                    ELSE IF rec.k < Len(commands)
                    THEN [proc |-> [rec2 EXCEPT !.k = rec.k + 1], dirs |-> dirs]
                    ELSE SaveRecipe(rec2, dirs)} :
            /\ proc' = [proc EXCEPT ![p] = next.proc]
            /\ dirs' = next.dirs
    /\ UNCHANGED <<files, cfgfile, cache, fn>>

(***************************************************************************)
(* The life of environments: create, recipe apply, delete, one command at  *)
(* a time, under the configuration of the start.                           *)
(***************************************************************************)
\* The environment directories at the start: none, or a plain file where
\* environment A would be.
InitialDirs ==
    {NoDirs,
     (default_base_dir \o <<NameA>>) :> PlainFile}

Init ==
    /\ dirs \in InitialDirs
    /\ files \in {[NoFiles EXCEPT ![SrcPath] = f] : f \in HandRecipes}
    /\ cfgfile = NoConfigFile
    /\ cache = [p \in Procs |-> None]
    /\ proc = [p \in Procs |-> IF p = 1 THEN NoProc("idle") ELSE NoProc("off")]
    /\ fn = NoFn

Next ==
    \E p \in Procs :
        \/ Create(p)
        \/ Delete(p)
        \/ ApplyStart(p)
        \/ ApplyVenv(p)
        \/ ApplyInstall(p)
        \/ ApplyPost(p)

Spec == Init /\ [][Next]_vars

(***************************************************************************)
(* The installed packages of an environment                                *)
(***************************************************************************)
\* str.splitlines, for text whose only line break is "\n".
RECURSIVE splitlines(_, _)
splitlines(text, line) ==
    IF text = <<>> THEN IF line = <<>> THEN <<>> ELSE <<line>>
    ELSE IF Head(text) = NL THEN <<line>> \o splitlines(Tail(text), <<>>)
    ELSE splitlines(Tail(text), Append(line, Head(text)))

\* The position of the first occurrence of sep in s from i on, 0 for none.
RECURSIVE FindStr(_, _, _)
FindStr(s, sep, i) ==
    IF i + Len(sep) - 1 > Len(s) THEN 0
    ELSE IF StartsWith(s, i, sep) THEN i
    ELSE FindStr(s, sep, i + 1)

\* s.split(sep)[0]
split0(s, sep) ==
    LET at == FindStr(s, sep, 1) IN IF at = 0 THEN s ELSE SubSeq(s, 1, at - 1)

\* get_installed_packages: the separators a name is cut at, in the order of
\* the chain of splits.
Separators ==
    << <<"=", "=">>, <<">", "=">>, <<"<", "=">>, <<">">>, <<"<">>, <<LB>>, <<"~", "=">> >>

\* The chain of splits from the i-th separator on.
RECURSIVE split_chain(_, _)
split_chain(s, i) ==
    IF i > Len(Separators) THEN s ELSE split_chain(split0(s, Separators[i]), i + 1)

\* get_installed_packages: the name before any version specifier.
package_name(line) == strip(split_chain(line, 1))

\* get_installed_packages: the loop over the lines of the freeze output.
RECURSIVE freeze_lines(_, _)
freeze_lines(lines, acc) ==
    IF lines = <<>> THEN acc
    ELSE LET line == strip(Head(lines)) IN
         IF line = <<>> \/ StartsWith(line, 1, <<"#">>) \/ StartsWith(line, 1, <<"-", "e">>)
         THEN freeze_lines(Tail(lines), acc)
         ELSE freeze_lines(Tail(lines),
                  [unpinned |-> Append(acc.unpinned, package_name(line)),
                   pinned |-> Append(acc.pinned, line)])

NoPackages == [unpinned |-> <<>>, pinned |-> <<>>]

\* What `uv pip freeze` can return: its exit code and what it printed.
FreezeOutcomes ==
    {[rc |-> 2, stdout |-> <<>>],
     [rc |-> 0, stdout |-> <<>>],
     [rc |-> 0, stdout |-> <<"#", "c", NL, "a", "=", "=", "1", NL, NL, "-", "e", SP, "z", NL,
                             SP, "b", LB, "e", RB, ">", "=", "1", NL>>]}

\* What get_installed_packages can get from the freeze tool for an
\* environment; nothing is run for one that has no interpreter.
FreezeOf(env_path) ==
    IF get_python_executable(env_path) THEN FreezeOutcomes ELSE {[rc |-> 2, stdout |-> <<>>]}

\* get_installed_packages, given what the freeze tool returns.
get_installed_packages(env_path, freeze) ==
    IF ~get_python_executable(env_path) THEN NoPackages
    ELSE IF freeze.rc # 0 THEN NoPackages
    ELSE freeze_lines(splitlines(strip(freeze.stdout), <<>>), NoPackages)

\* The tool calls of get_installed_packages.
FreezeCalls(env_path, freeze) ==
    IF get_python_executable(env_path)
    THEN <<ToolCall("freeze", env_path, <<>>, freeze.rc)>>
    ELSE <<>>

(***************************************************************************)
(* spawn, on a POSIX system (os.name is not "nt")                          *)
(***************************************************************************)
UserHome == "/home/u"

\* os.path.expanduser, for a path that is or starts with "~/".
expanduser(path) ==
    IF path # <<>> /\ Head(path) = "~" THEN <<UserHome>> \o Tail(path) ELSE path

\* a or b, for strings that may be None.
OrElse(a, b) == IF Truthy(a) THEN a ELSE b

shell_env_first(shell_arg, setting, env) ==
    Some(expanduser(OrElse(OrElse(env, OrElse(shell_arg, setting)), Some(W("/bin/bash")))[1]))

\* cmd_spawn, _spawn_unix: the shell to launch.
shell_to_launch(shell_arg, setting, env) ==
    Some(expanduser(OrElse(OrElse(OrElse(shell_arg, setting), env), Some(W("/bin/bash")))[1]))

\* Exit codes of the launched shell.
ShellCodes == {0, 3}

\* $SHELL: not set, set empty, set.
ShellEnvs == {None, Some(<<>>), Some(W("/bin/zsh"))}

SpawnArgvs ==
    {<<W("spawn"), NameA>>,
     <<W("spawn"), NameA, W("fish")>>,
     <<W("shell"), NameA, <<"~", "/sh">>>>,
     <<W("shell"), NameA, <<>>>>,
     <<W("spawn"), NameB>>}

\* cmd_spawn and _spawn_unix, through main.
Spawn(p) ==
    /\ proc[p].pc = "idle"
    /\ \E argv \in SpawnArgvs, env \in ShellEnvs : \E call \in {main(argv)} :
       /\ call.h = "cmd_spawn"
       /\ \E target \in {env_dir(p, call.a.name)} :
          \E failed \in {[Finished(argv, call, 1, <<>>) EXCEPT !.target = target, !.env = env]} :
            IF ~IsDir(target) \/ dirs[target].bin # "activate"
            THEN proc' = [proc EXCEPT ![p] = failed]
            ELSE \E shell \in {shell_to_launch(call.a.shell, get_config(p)[W("shell")], env)},
                    code \in ShellCodes :
                 proc' = [proc EXCEPT ![p] =
                     [failed EXCEPT !.rc = Some(code),
                                    !.calls = <<ToolCall("shell", target, shell, code)>>]]
    /\ cache' = CacheLoaded(p)
    /\ UNCHANGED <<dirs, files, cfgfile, fn>>

VenvA(py, cfg, recipe) == (default_base_dir \o <<NameA>>) :> Dir(py, cfg, recipe)

\* The environments spawn finds: none, a plain file in the place of A, A
\* without bin, with an empty bin, made by the venv tool; also under /alt.
SpawnEnvs ==
    {NoDirs, (default_base_dir \o <<NameA>>) :> PlainFile}
    \cup {VenvA(FALSE, None, NoFile), VenvA(TRUE, Some(VenvCfg(Py311)), NoFile)}
    \cup {(default_base_dir \o <<NameA>>) :> [Dir(FALSE, None, NoFile) EXCEPT !.bin = "dir"]}
    \cup {(<<W("/alt"), NameA>>) :> Dir(TRUE, Some(VenvCfg(Py311)), NoFile)}

SpawnConfigs ==
    {NoConfigFile, BadConfigFile,
     write_config([EmptyConfig EXCEPT ![W("shell")] = Some(W("zsh"))]),
     write_config([EmptyConfig EXCEPT ![W("shell")] = Some(<<>>)]),
     write_config([EmptyConfig EXCEPT ![W("shell")] = Some(W("zsh")),
                                      ![W("home")] = Some(W("/alt"))])}

InitSpawn ==
    /\ dirs \in SpawnEnvs
    /\ files = NoFiles
    /\ cfgfile \in SpawnConfigs
    /\ cache = [p \in Procs |-> None]
    /\ proc = [p \in Procs |-> IF p = 1 THEN NoProc("idle") ELSE NoProc("off")]
    /\ fn = NoFn

NextSpawn ==
    \E p \in Procs :
        \/ Spawn(p)
        \/ NewProcess(p)

SpecSpawn == InitSpawn /\ [][NextSpawn]_vars

(***************************************************************************)
(* The package lists on their own: get_installed_packages applied to what  *)
(* a successful freeze printed.                                            *)
(***************************************************************************)
MaxOutLen == 4

FreezeChars == {"a", "=", "~", ">", LB, SP, "#", NL}

FreezeTexts ==
    StrsUpTo(FreezeChars, MaxOutLen) \cup {f.stdout : f \in FreezeOutcomes}

PackageLists ==
    /\ fn.op = "packages" /\ fn.pc = "start"
    /\ fn' = [fn EXCEPT !.pc = "done",
                        !.out = freeze_lines(splitlines(strip(fn.in), <<>>), NoPackages)]
    /\ UNCHANGED <<dirs, files, cfgfile, cache, proc>>

InitPackages ==
    /\ dirs = NoDirs
    /\ files = NoFiles
    /\ cfgfile = NoConfigFile
    /\ cache = [p \in Procs |-> None]
    /\ proc = [p \in Procs |-> NoProc("off")]
    /\ fn \in {[NoFn EXCEPT !.op = "packages", !.pc = "start", !.in = t] : t \in FreezeTexts}

NextPackages == PackageLists

SpecPackages == InitPackages /\ [][NextPackages]_vars

(***************************************************************************)
(* recipe export, recipe describe, recipe post                             *)
(***************************************************************************)
\* The recipes the model follows: lists and strings within the bounds.
WithinBounds(recipe) ==
    /\ Len(ListOf(recipe.commands)) <= MaxCmds
    /\ \A i \in 1..Len(ListOf(recipe.commands)) : Len(recipe.commands[1][i]) <= MaxTextLen
    /\ Len(ListOf(recipe.description)) <= MaxTextLen

OptList(list) == IF list = <<>> THEN None ELSE Some(list)

\* The recipe built from the state of an environment: the name, the Python
\* version when it is known, the package lists that are not empty.
recipe_of_env(name, python_ver, pkgs) ==
    [EmptyRecipe EXCEPT !.name = Some(name),
                        !.python = IF Truthy(python_ver) THEN python_ver ELSE None,
                        !.packages = OptList(pkgs.unpinned),
                        !.pinned = OptList(pkgs.pinned)]

\* cmd_recipe_export: the commands of the recipe read from the default
\* location, kept when the file is there and parses and its command list is
\* not empty.
commands_kept(existing) ==
    IF existing.ok /\ Truthy(existing.recipe.commands)
    THEN existing.recipe.commands
    ELSE None

ExportArgvs ==
    {<<W("recipe"), W("export"), NameA>>,
     <<W("recipe"), W("export"), NameA, W("-o"), OutPath>>,
     <<W("recipe"), W("export"), NameB>>}

\* cmd_recipe_export, through main.
RecipeExport(p) ==
    /\ proc[p].pc = "idle"
    /\ \E argv \in ExportArgvs : \E call \in {main(argv)} :
       /\ call.h = "cmd_recipe_export"
       /\ \E target \in {env_dir(p, call.a.name)} :
          \E python_ver \in {get_python_version(target)} :
          \E failed \in {[Finished(argv, call, 1, <<>>) EXCEPT !.target = target]} :
            IF ~IsDir(target) \/ ~Truthy(python_ver)
            THEN /\ proc' = [proc EXCEPT ![p] = failed]
                 /\ UNCHANGED <<dirs, files>>
            ELSE \E freeze \in FreezeOf(target) :
                 \E recipe \in {[recipe_of_env(call.a.name, python_ver,
                                               get_installed_packages(target, freeze))
                                 EXCEPT !.commands =
                                    commands_kept(read_recipe_toml(dirs[target].recipe))]} :
                    /\ WithinBounds(recipe)
                    /\ proc' = [proc EXCEPT ![p] =
                           [failed EXCEPT !.rc = Some(0), !.recipe = recipe,
                                          !.calls = FreezeCalls(target, freeze)]]
                    /\ IF Truthy(call.a.output)
                       THEN /\ files' = [files EXCEPT ![call.a.output[1]] = write_recipe_toml(recipe)]
                            /\ dirs' = dirs
                       ELSE /\ dirs' = WithRecipe(target, write_recipe_toml(recipe))
                            /\ files' = files
    /\ cache' = CacheLoaded(p)
    /\ UNCHANGED <<cfgfile, fn>>

\* cmd_recipe_describe and cmd_recipe_edit_post: the recipe of the file when
\* there is one (reading it raises when it does not parse), else the recipe
\* built from the environment.
recipe_for_update(name, target, freeze) ==
    IF dirs[target].recipe.kind # "none"
    THEN read_recipe_toml(dirs[target].recipe)
    ELSE [ok |-> TRUE,
          recipe |-> recipe_of_env(name, get_python_version(target),
                                   get_installed_packages(target, freeze))]

\* What the freeze tool can return to that: it is not run when the file is there.
FreezeForUpdate(target) ==
    IF dirs[target].recipe.kind # "none" THEN {[rc |-> 2, stdout |-> <<>>]} ELSE FreezeOf(target)

\* The tool calls of that: none when the file is there.
UpdateCalls(target, freeze) ==
    IF dirs[target].recipe.kind # "none" THEN <<>> ELSE FreezeCalls(target, freeze)

DescribeArgvs ==
    {<<W("recipe"), W("describe"), NameA, <<"d">>, <<"e">>>>,
     <<W("recipe"), W("describe"), NameB, <<"d">>>>}

\* cmd_recipe_describe, through main.
RecipeDescribe(p) ==
    /\ proc[p].pc = "idle"
    /\ \E argv \in DescribeArgvs : \E call \in {main(argv)} :
       /\ call.h = "cmd_recipe_describe"
       /\ \E target \in {env_dir(p, call.a.name)} :
          \E failed \in {[Finished(argv, call, 1, <<>>) EXCEPT !.target = target]} :
            IF ~IsDir(target)
            THEN /\ proc' = [proc EXCEPT ![p] = failed]
                 /\ dirs' = dirs
            ELSE \E freeze \in FreezeForUpdate(target) :
                 \E r \in {recipe_for_update(call.a.name, target, freeze)} :
                 \E recipe \in {[r.recipe EXCEPT !.description = Some(call.a.description)]} :
                    IF ~r.ok
                    THEN /\ proc' = [proc EXCEPT ![p] = failed]
                         /\ dirs' = dirs
                    ELSE /\ WithinBounds(recipe)
                         /\ proc' = [proc EXCEPT ![p] =
                                [failed EXCEPT !.rc = Some(0), !.recipe = recipe,
                                               !.calls = UpdateCalls(target, freeze)]]
                         /\ dirs' = WithRecipe(target, write_recipe_toml(recipe))
    /\ cache' = CacheLoaded(p)
    /\ UNCHANGED <<files, cfgfile, fn>>

\* cmd_recipe, post: the lines of the --from file that are commands.
RECURSIVE file_commands(_)
file_commands(lines) ==
    IF lines = <<>> THEN <<>>
    ELSE LET line == strip(Head(lines)) IN
         IF line # <<>> /\ ~StartsWith(line, 1, <<"#">>)
         THEN <<line>> \o file_commands(Tail(lines))
         ELSE file_commands(Tail(lines))

collected_together(a) ==
    IF Truthy(a.from_file)
    THEN IF FileAt(a.from_file[1]).kind = "none"
         THEN [ok |-> FALSE, commands |-> <<>>]
         ELSE LET found == file_commands(splitlines(FileAt(a.from_file[1]).text, <<>>)) IN
              [ok |-> a.commands \o found # <<>>, commands |-> a.commands \o found]
    ELSE [ok |-> a.commands # <<>>, commands |-> a.commands]

\* cmd_recipe, post: what comes of the commands of the command line once the
\* --from file has been read; ok is FALSE where cmd_recipe returns 1 itself.
collected_commands(a) ==
    IF Truthy(a.from_file)
    THEN IF FileAt(a.from_file[1]).kind = "none"
         THEN [ok |-> FALSE, commands |-> <<>>]
         ELSE LET found == file_commands(splitlines(FileAt(a.from_file[1]).text, <<>>)) IN
              [ok |-> found # <<>>, commands |-> a.commands \o found]
    ELSE [ok |-> a.commands # <<>>, commands |-> a.commands]

\* cmd_recipe_edit_post: the new command list.
updated_commands(existing_cmds, commands, append) ==
    IF append THEN existing_cmds \o commands ELSE commands

PostArgvs ==
    {<<W("recipe"), W("post"), NameA>> \o opts :
        opts \in {<<>>,
                  <<W("--add"), CmdY>>,
                  <<W("--set"), CmdY>>,
                  <<W("--add"), CmdML>>,
                  <<W("--set"), CmdX, W("--add"), CmdY>>,
                  <<W("--set"), CmdY, W("--add")>>,
                  <<W("--from"), CmdsPath>>,
                  <<W("--set"), CmdX, W("--from"), CmdsPath>>,
                  <<W("--from"), W("missing.txt")>>}}
    \cup {<<W("recipe"), W("post"), NameB, W("--add"), CmdY>>}

\* recipe post: cmd_recipe from the parsed options on, and
\* cmd_recipe_edit_post.
RecipePost(p) ==
    /\ proc[p].pc = "idle"
    /\ \E argv \in PostArgvs : \E call \in {main(argv)} :
       /\ call.h = "recipe_post"
       /\ \E c \in {collected_commands(call.a)} :
          \E usage \in {Finished(argv, call, 1, <<>>)} :
            IF ~c.ok
            THEN /\ proc' = [proc EXCEPT ![p] = usage]
                 /\ dirs' = dirs
                 /\ cache' = cache
            ELSE \E target \in {env_dir(p, call.a.name)} :
                 \E failed \in {[usage EXCEPT !.target = target]} :
                 /\ cache' = CacheLoaded(p)
                 /\ IF ~IsDir(target)
                    THEN /\ proc' = [proc EXCEPT ![p] = failed]
                         /\ dirs' = dirs
                    ELSE \E freeze \in FreezeForUpdate(target) :
                         \E r \in {recipe_for_update(call.a.name, target, freeze)} :
                         \E recipe \in {[r.recipe EXCEPT !.commands =
                                            Some(updated_commands(ListOf(@), c.commands,
                                                                  call.a.append))]} :
                            IF ~r.ok
                            THEN /\ proc' = [proc EXCEPT ![p] = failed]
                                 /\ dirs' = dirs
                            ELSE /\ WithinBounds(recipe)
                                 /\ proc' = [proc EXCEPT ![p] =
                                        [failed EXCEPT !.rc = Some(0), !.recipe = recipe,
                                                       !.calls = UpdateCalls(target, freeze)]]
                                 /\ dirs' = WithRecipe(target, write_recipe_toml(recipe))
    /\ UNCHANGED <<files, cfgfile, fn>>

\* cmd_info: total_packages
total_packages(pkgs) == Len(pkgs.unpinned) + Len(pkgs.pinned)

InfoArgvs == {<<W("info"), NameA>>, <<W("info"), NameB>>}

\* cmd_info, through main.  What it prints is kept in out; stdout is what the
\* freeze tool printed.  A recipe file that does not parse ends the process
\* with a traceback and exit code 1.
Info(p) ==
    /\ proc[p].pc = "idle"
    /\ \E argv \in InfoArgvs : \E call \in {main(argv)} :
       /\ call.h = "cmd_info"
       /\ \E target \in {env_dir(p, call.a.name)} :
          \E failed \in {[Finished(argv, call, 1, <<>>) EXCEPT !.target = target]} :
            IF ~IsDir(target)
            THEN proc' = [proc EXCEPT ![p] = failed]
            ELSE \E r \in {read_recipe_toml(dirs[target].recipe)} :
                 IF dirs[target].recipe.kind # "none" /\ ~r.ok
                 THEN proc' = [proc EXCEPT ![p] = failed]
                 ELSE \E freeze \in FreezeOf(target) :
                      proc' = [proc EXCEPT ![p] =
                          [failed EXCEPT
                              !.rc = Some(0),
                              !.calls = FreezeCalls(target, freeze),
                              !.stdout = IF get_python_executable(target)
                                         THEN freeze.stdout ELSE <<>>,
                              !.out = <<[python |-> get_python_version(target),
                                         description |-> r.recipe.description,
                                         packages |-> total_packages(
                                             get_installed_packages(target, freeze))]>>]]
    /\ cache' = CacheLoaded(p)
    /\ UNCHANGED <<dirs, files, cfgfile, fn>>

ShowArgvs == {<<W("recipe"), W("show"), NameA>>, <<W("recipe"), W("show"), NameB>>}

\* cmd_recipe_show, through main.  Reading a recipe file that does not parse
\* raises: the process ends with a traceback and exit code 1.
RecipeShow(p) ==
    /\ proc[p].pc = "idle"
    /\ \E argv \in ShowArgvs : \E call \in {main(argv)} :
       /\ call.h = "cmd_recipe_show"
       /\ \E target \in {env_dir(p, call.a.name)} :
          \E failed \in {[Finished(argv, call, 1, <<>>) EXCEPT !.target = target]} :
            IF ~IsDir(target)
            THEN proc' = [proc EXCEPT ![p] = failed]
            ELSE IF dirs[target].recipe.kind = "none"
            THEN proc' = [proc EXCEPT ![p] = [failed EXCEPT !.rc = Some(0)]]
            ELSE \E r \in {read_recipe_toml(dirs[target].recipe)} :
                 IF ~r.ok
                 THEN proc' = [proc EXCEPT ![p] = failed]
                 ELSE proc' = [proc EXCEPT ![p] =
                          [failed EXCEPT !.rc = Some(0),
                                         !.out = <<[description |-> r.recipe.description,
                                                    file |-> dirs[target].recipe]>>]]
    /\ cache' = CacheLoaded(p)
    /\ UNCHANGED <<dirs, files, cfgfile, fn>>

(***************************************************************************)
(* The upkeep of the recipe of an environment: export, describe, post and  *)
(* info on the environments and files of the start.                        *)
(***************************************************************************)
\* The recipe.toml an environment has at the start: none, one that was
\* written by hand (with a command of two lines, or one that does not
\* parse), one that a command wrote.
InitialRecipes ==
    {NoFile,
     BadFile,
     write_recipe_toml(Rcp(Some(NameA), Some(Py311), None, None, None, Some(<<CmdX>>))),
     write_recipe_toml(Rcp(Some(NameA), Some(Py311), Some(DescD), Some(<<PkgA>>), Some(<<PinA>>), None)),
     TomlFile([EmptyRecipe EXCEPT !.name = Some(toml_value_str(NameA)),
                                  !.commands = Some(<<LB, DQ, "x", BS, "n", "y", DQ, RB>>)]),
     \* commands = ["x\n"], written by hand
     TomlFile([EmptyRecipe EXCEPT !.name = Some(toml_value_str(NameA)),
                                  !.commands = Some(<<LB, DQ, "x", BS, "n", DQ, RB>>)])}

InitialEnvs ==
    {VenvA(TRUE, Some(VenvCfg(Py311)), recipe) : recipe \in InitialRecipes}
    \cup {VenvA(FALSE, None, NoFile)}

CommandFiles ==
    {TextFile(<<"#", "c", NL>>),
     TextFile(<<"#", "c", NL, NL, SP, "y", SP, NL>>)}

InitRecipe ==
    /\ dirs \in InitialEnvs
    /\ files \in {[NoFiles EXCEPT ![CmdsPath] = f] : f \in CommandFiles}
    /\ cfgfile = NoConfigFile
    /\ cache = [p \in Procs |-> None]
    /\ proc = [p \in Procs |-> IF p = 1 THEN NoProc("idle") ELSE NoProc("off")]
    /\ fn = NoFn

NextRecipe ==
    \E p \in Procs :
        \/ RecipeExport(p)
        \/ RecipeDescribe(p)
        \/ RecipePost(p)
        \/ Info(p)

SpecRecipe == InitRecipe /\ [][NextRecipe]_vars

(***************************************************************************)
(* All the commands that read a recipe file, started while the recipe.toml  *)
(* of environment A does not parse, with a recipe file to apply that does  *)
(* or does not.                                                            *)
(***************************************************************************)
Unparsed == dirs[default_base_dir \o <<NameA>>].recipe.kind = "bad"

InitReaders ==
    /\ dirs = VenvA(TRUE, Some(VenvCfg(Py311)), BadFile)
    /\ files \in {[NoFiles EXCEPT ![CmdsPath] = TextFile(<<"#", "c", NL, NL, SP, "y", SP, NL>>),
                                  ![SrcPath] = f] :
                     f \in {BadFile,
                            write_recipe_toml(Rcp(Some(NameA), Some(Py311), None, Some(<<PkgA>>),
                                                  None, Some(<<CmdX>>)))}}
    /\ cfgfile = NoConfigFile
    /\ cache = [p \in Procs |-> None]
    /\ proc = [p \in Procs |-> IF p = 1 THEN NoProc("idle") ELSE NoProc("off")]
    /\ fn = NoFn

NextReaders ==
    \E p \in Procs :
        \/ Unparsed /\ ApplyStart(p)
        \/ ApplyVenv(p)
        \/ ApplyInstall(p)
        \/ ApplyPost(p)
        \/ Unparsed /\ RecipeShow(p)
        \/ Unparsed /\ RecipeDescribe(p)
        \/ Unparsed /\ RecipePost(p)
        \/ Unparsed /\ RecipeExport(p)
        \/ Unparsed /\ Info(p)

SpecReaders == InitReaders /\ [][NextReaders]_vars

(***************************************************************************)
(* Two processes, each running one recipe apply, with no environment at    *)
(* the start: their steps interleave in any order.                         *)
(***************************************************************************)
InitRace ==
    /\ dirs = NoDirs
    /\ files = [NoFiles EXCEPT
                   ![SrcPath] = write_recipe_toml(Rcp(Some(NameA), Some(Py311), None,
                                                      Some(<<PkgA>>), None, Some(<<CmdX>>))),
                   ![OutPath] = write_recipe_toml(Rcp(Some(NameA), None, Some(DescD),
                                                      None, None, None))]
    /\ cfgfile = NoConfigFile
    /\ cache = [p \in Procs |-> None]
    /\ proc = [p \in Procs |-> NoProc("idle")]
    /\ fn = NoFn

NextRace ==
    \E p \in Procs :
        \/ proc[p].rc = None /\ ApplyStart(p)
        \/ ApplyVenv(p)
        \/ ApplyInstall(p)
        \/ ApplyPost(p)

SpecRace == InitRace /\ [][NextRace]_vars

(***************************************************************************)
(* Claims about recipe apply and delete                                    *)
(***************************************************************************)
HasWord(argv, w) == \E i \in 1..Len(argv) : argv[i] = w

\* The tool calls of one kind among the calls of a command, in order.
CallsOf(calls, tool) == SelectSeq(calls, LAMBDA c : c.tool = tool)

Applying(p) == proc[p].pc # "off" /\ proc[p].call.h = "cmd_recipe_apply"

\* C1: recipe apply whose resolved target name (the --name value, else the
\* name field of the recipe) names a path that exists under the base
\* directory returns 1, has invoked no external tool and has written no file.
C1_ApplyOnExistingTarget ==
    [][\A p \in Procs :
        LET a == proc'[p].call.a
            r == read_recipe_toml(FileAt(a.recipe_file))
            resolved == IF a.name # None THEN a.name
                        ELSE IF r.ok THEN r.recipe.name ELSE None
        IN  (/\ proc[p].pc = "idle"
             /\ StepOf(p)
             /\ Applying(p)'
             /\ r.ok
             /\ resolved # None
             /\ (base_dir(p) \o <<resolved[1]>>) \in DOMAIN dirs)
            => (/\ proc'[p].pc = "idle"
                /\ proc'[p].rc = Some(1)
                /\ proc'[p].calls = <<>>
                /\ dirs' = dirs
                /\ files' = files
                /\ cfgfile' = cfgfile)]_vars

C1_Witness ==
    \E p \in Procs :
        /\ Ran(p, "cmd_recipe_apply")
        /\ proc[p].rc = Some(1)
        /\ proc[p].calls = <<>>
        /\ proc[p].target = default_base_dir \o <<NameA>>
        /\ IsDir(proc[p].target)
        /\ dirs[proc[p].target].recipe = NoFile

\* C2: post-install commands are executed only with --allow-scripts; they
\* run one at a time in recipe order, each only after the venv and install
\* steps and the commands before it have succeeded; the first one that exits
\* non-zero ends the sequence and its exit code is what apply returns; when
\* apply succeeds with the flag, every command has been run.
C2_PostInstallCommands ==
    \A p \in Procs :
        Applying(p) =>
            LET calls == proc[p].calls
                commands == ListOf(proc[p].recipe.commands)
                posts == CallsOf(calls, "post")
            IN  /\ posts # <<>> => HasWord(proc[p].argv, W("--allow-scripts"))
                /\ Len(posts) <= Len(commands)
                /\ \A i \in 1..Len(posts) : posts[i].args = <<commands[i]>>
                /\ \A j \in 1..Len(calls) :
                        calls[j].tool = "post" =>
                            /\ calls[1].tool = "venv"
                            /\ \A i \in 1..(j - 1) : calls[i].rc = 0
                            /\ \A i \in (j + 1)..Len(calls) : calls[i].tool = "post"
                            /\ calls[j].rc # 0 =>
                                    /\ j = Len(calls)
                                    /\ proc[p].pc = "idle"
                                    /\ proc[p].rc = Some(calls[j].rc)
                /\ (/\ proc[p].pc = "idle"
                    /\ proc[p].rc = Some(0)
                    /\ proc[p].call.a.allow_scripts) => Len(posts) = Len(commands)

C2_Witness ==
    \E p \in Procs :
        /\ Ran(p, "cmd_recipe_apply")
        /\ proc[p].recipe.commands = Some(<<CmdX, CmdY>>)
        /\ Len(proc[p].calls) = 3
        /\ proc[p].calls[2].tool = "install"
        /\ proc[p].calls[3] = ToolCall("post", proc[p].target, <<CmdX>>, 3)
        /\ proc[p].rc = Some(3)

\* C5: delete on an existing environment.  Without --force the directory is
\* removed only when the answer, trimmed and lower-cased, is y or yes; any
\* other answer leaves it and returns 0; EOF or an interrupt leaves it and
\* returns 1.  With --force nothing is asked and the directory is removed
\* with exit code 0.
C5_DeleteConfirmation ==
    [][\A p \in Procs :
        LET rec == proc'[p]
            target == base_dir(p) \o <<rec.argv[2]>>
            force == HasWord(rec.argv, W("--force")) \/ HasWord(rec.argv, W("-f"))
            gone == [q \in DOMAIN dirs \ {target} |-> dirs[q]]
        IN  (StepOf(p) /\ Ran(p, "cmd_delete")' /\ IsDir(target))
            => IF force
               THEN ~rec.asked /\ dirs' = gone /\ rec.rc = Some(0)
               ELSE /\ rec.asked
                    /\ IF rec.answer = None
                       THEN dirs' = dirs /\ rec.rc = Some(1)
                       ELSE IF lower(strip(rec.answer[1])) \in {<<"y">>, <<"y", "e", "s">>}
                       THEN dirs' = gone /\ rec.rc = Some(0)
                       ELSE dirs' = dirs /\ rec.rc = Some(0)]_vars

C5_Witness ==
    \E p \in Procs :
        /\ Ran(p, "cmd_delete")
        /\ proc[p].asked
        /\ proc[p].answer = Some(<<"n">>)
        /\ proc[p].rc = Some(0)
        /\ IsDir(proc[p].target)
        /\ dirs[proc[p].target].recipe # NoFile

\* C8: the list handed to the install tool is the pinned list exactly when
\* --pinned was given and the pinned list is not empty; otherwise the
\* unpinned list when that is not empty; when neither applies the install
\* tool is not invoked.
C8_InstalledList ==
    \A p \in Procs :
        Applying(p) =>
            LET installs == CallsOf(proc[p].calls, "install")
                pinned == ListOf(proc[p].recipe.pinned)
                packages == ListOf(proc[p].recipe.packages)
                use_pinned == HasWord(proc[p].argv, W("--pinned")) /\ pinned # <<>>
                past_install == proc[p].pc = "post" \/ (proc[p].pc = "idle" /\ proc[p].rc = Some(0))
            IN  /\ Len(installs) <= 1
                /\ \A i \in 1..Len(installs) :
                        /\ use_pinned => installs[i].args = pinned
                        /\ ~use_pinned => installs[i].args = packages /\ packages # <<>>
                /\ (~use_pinned /\ packages = <<>>) => installs = <<>>
                /\ (past_install /\ (use_pinned \/ packages # <<>>)) => Len(installs) = 1

C8_Witness ==
    \E p \in Procs :
        /\ Applying(p)
        /\ HasWord(proc[p].argv, W("--pinned"))
        /\ proc[p].recipe.packages = Some(<<PkgA>>)
        /\ Len(proc[p].calls) = 2
        /\ proc[p].calls[2] = ToolCall("install", proc[p].target, <<PinA>>, 0)

\* The lists and strings of two recipes are the same, an absent list being
\* the same as an empty one.
SameValues(r1, r2) ==
    /\ \A f \in StrFields : r1[f] = r2[f]
    /\ \A f \in ListFields : ListOf(r1[f]) = ListOf(r2[f])

\* C10: when recipe apply returns 0, the recipe.toml in the target
\* environment holds the name, python, description, packages, pinned and
\* post-install commands of the recipe file that was applied.
C10_AppliedRecipeSaved ==
    [][\A p \in Procs :
        (StepOf(p) /\ Ran(p, "cmd_recipe_apply")' /\ proc'[p].rc = Some(0))
        => LET target == proc'[p].target
               source == read_recipe_toml(FileAt(proc'[p].call.a.recipe_file))
               saved == read_recipe_toml(dirs'[target].recipe)
           IN  /\ target \in DOMAIN dirs'
               /\ dirs'[target].kind = "dir"
               /\ dirs'[target].recipe.kind = "toml"
               /\ saved.ok
               /\ SameValues(saved.recipe, source.recipe)]_vars

(***************************************************************************)
(* Claims about recipe post and recipe export                              *)
(***************************************************************************)
\* The positions of the --add and --set flags that have a value after them.
FlagPositions(argv) ==
    {i \in 1..(Len(argv) - 1) : argv[i] \in {W("--add"), W("--set")}}

LastFlag(argv) ==
    argv[CHOOSE i \in FlagPositions(argv) : \A j \in FlagPositions(argv) : j <= i]

\* C3: recipe post on an environment whose recipe holds the commands E, with
\* the collected commands C not empty: the stored list is E followed by C
\* when the last --add/--set flag is --add, and C when it is --set.
C3_PostAddSet ==
    [][\A p \in Procs :
        LET rec == proc'[p]
            target == base_dir(p) \o <<rec.call.a.name>>
            existing == read_recipe_toml(dirs[target].recipe)
            E == ListOf(existing.recipe.commands)
            C == collected_commands(rec.call.a)
            stored == read_recipe_toml(dirs'[target].recipe)
        IN  (/\ StepOf(p)
             /\ Ran(p, "recipe_post")'
             /\ FlagPositions(rec.argv) # {}
             /\ IsDir(target)
             /\ existing.ok
             /\ C.ok)
            => (/\ rec.rc = Some(0)
                /\ stored.ok
                /\ LastFlag(rec.argv) = W("--add") => ListOf(stored.recipe.commands) = E \o C.commands
                /\ LastFlag(rec.argv) = W("--set") => ListOf(stored.recipe.commands) = C.commands)]_vars

\* The lines of a --from file that are commands: trimmed, not blank, no comment.
RECURSIVE CommandLines(_)
CommandLines(lines) ==
    IF lines = <<>> THEN <<>>
    ELSE (IF strip(Head(lines)) = <<>> \/ Head(strip(Head(lines))) = "#"
          THEN <<>> ELSE <<strip(Head(lines))>>)
         \o CommandLines(Tail(lines))

\* recipe post with a --from file that is there, on an environment whose
\* recipe.toml, if any, parses: it returns 1 and leaves the files alone when
\* refuse holds, and else returns 0 with the values of --add/--set followed by
\* the command lines of the file as the collected list.
PostFromFile(p, refuse(_, _)) ==
    LET rec == proc'[p]
        a == rec.call.a
        target == base_dir(p) \o <<a.name>>
        E == ListOf(read_recipe_toml(dirs[target].recipe).recipe.commands)
        lines == CommandLines(splitlines(FileAt(a.from_file[1]).text, <<>>))
    IN  (/\ StepOf(p)
         /\ Ran(p, "recipe_post")'
         /\ Truthy(a.from_file)
         /\ FileAt(a.from_file[1]).kind # "none"
         /\ IsDir(target)
         /\ read_recipe_toml(dirs[target].recipe).ok \/ dirs[target].recipe.kind = "none")
        => IF refuse(a.commands, lines)
           THEN rec.rc = Some(1) /\ dirs' = dirs /\ files' = files
           ELSE /\ rec.rc = Some(0)
                /\ rec.recipe.commands =
                       Some(IF a.append THEN E \o a.commands \o lines ELSE a.commands \o lines)

NoneTogether(values, lines) == values \o lines = <<>>

NoneInFile(values, lines) == lines = <<>>

\* C18 as stated: recipe post with a --from file that is there is an error
\* exactly when the values of --add/--set and the command lines of the file
\* together give no command; else the collected list is the values in their
\* order followed by the command lines of the file.
C18_PostFromFile == [][\A p \in Procs : PostFromFile(p, NoneTogether)]_vars

\* C18, amended: it is an error exactly when the file holds no command line,
\* whatever values --add/--set give; else the collected list is the values
\* in their order followed by the command lines of the file.
C18_PostFromFileAmended == [][\A p \in Procs : PostFromFile(p, NoneInFile)]_vars

\* post --set x --from cmds.txt has returned 1: the file holds only a comment.
C18_Witness ==
    \E p \in Procs :
        /\ Ran(p, "recipe_post")
        /\ proc[p].call.a.commands # <<>>
        /\ Truthy(proc[p].call.a.from_file)
        /\ FileAt(proc[p].call.a.from_file[1]).kind = "text"
        /\ proc[p].rc = Some(1)

\* C21: recipe export (default output) that succeeds right after a
\* successful recipe describe of the same environment leaves a recipe.toml
\* without a description, whose post-install commands are those the
\* recipe.toml held before the export.
C21_ExportAfterDescribe ==
    [][\A p \in Procs :
        LET rec == proc'[p]
            target == base_dir(p) \o <<rec.call.a.name>>
            before == read_recipe_toml(dirs[target].recipe)
            after == read_recipe_toml(dirs'[target].recipe)
        IN  (/\ Ran(p, "cmd_recipe_describe")
             /\ proc[p].rc = Some(0)
             /\ StepOf(p)
             /\ Ran(p, "cmd_recipe_export")'
             /\ rec.call.a.name = proc[p].call.a.name
             /\ rec.call.a.output = None
             /\ rec.rc = Some(0))
            => (/\ before.ok /\ before.recipe.description # None
                /\ after.ok
                /\ after.recipe.description = None
                /\ ListOf(after.recipe.commands) = ListOf(before.recipe.commands))]_vars

\* C9: recipe export returns 1 and writes nothing when the environment
\* directory is missing or its Python version is not resolved; otherwise it
\* writes a recipe to --output when given, else to the recipe.toml of the
\* environment, and the commands of the written recipe are the commands,
\* when there are any, of the recipe.toml the environment had.
C9_ExportKeepsCommands ==
    [][\A p \in Procs :
        LET rec == proc'[p]
            target == base_dir(p) \o <<rec.argv[3]>>
            output == rec.call.a.output
            existing == read_recipe_toml(dirs[target].recipe)
            written == IF output # None THEN files'[output[1]] ELSE dirs'[target].recipe
        IN  (StepOf(p) /\ Ran(p, "cmd_recipe_export")')
            => IF ~IsDir(target) \/ get_python_version(target) = None
               THEN rec.rc = Some(1) /\ dirs' = dirs /\ files' = files
               ELSE /\ rec.rc = Some(0)
                    /\ written.kind = "toml"
                    /\ output # None => dirs' = dirs
                    /\ output = None => files' = files
                    /\ (existing.ok /\ Truthy(existing.recipe.commands))
                        => /\ read_recipe_toml(written).ok
                           /\ read_recipe_toml(written).recipe.commands
                                = existing.recipe.commands]_vars

\* The commands that must read the recipe.toml of the environment they name.
EnvReaders == {"cmd_recipe_show", "cmd_recipe_describe", "recipe_post", "cmd_info"}

\* C17: apply given a recipe file that is there and does not parse, and show,
\* describe, post and info on an environment whose recipe.toml is there and
\* does not parse, return 1 and leave every file as it was; export on such an
\* environment succeeds, given the directory and its Python version, and
\* writes a recipe that parses.
C17_UnparseableRecipe ==
    [][\A p \in Procs :
        (StepOf(p) /\ proc[p].pc = "idle")
        => LET call == proc'[p].call
               target == env_dir(p, call.a.name)
               refused == /\ proc'[p].pc = "idle"
                          /\ proc'[p].rc = Some(1)
                          /\ proc'[p].calls = <<>>
                          /\ dirs' = dirs
                          /\ files' = files
                          /\ cfgfile' = cfgfile
           IN  /\ (call.h = "cmd_recipe_apply" /\ FileAt(call.a.recipe_file).kind = "bad")
                  => refused
               /\ (call.h \in EnvReaders /\ IsDir(target) /\ dirs[target].recipe.kind = "bad")
                  => refused
               /\ (/\ call.h = "cmd_recipe_export"
                   /\ IsDir(target)
                   /\ dirs[target].recipe.kind = "bad"
                   /\ Truthy(get_python_version(target)))
                  => /\ proc'[p].rc = Some(0)
                     /\ IF Truthy(call.a.output)
                        THEN /\ read_recipe_toml(files'[call.a.output[1]]).ok
                             /\ dirs' = dirs
                        ELSE read_recipe_toml(dirs'[target].recipe).ok]_vars

\* describe on environment A, whose recipe.toml does not parse, has returned 1.
C17_Witness ==
    \E p \in Procs :
        /\ Ran(p, "cmd_recipe_describe")
        /\ proc[p].rc = Some(1)
        /\ IsDir(proc[p].target)
        /\ dirs[proc[p].target].recipe.kind = "bad"

\* C19: applies to one name are not coordinated.  An apply that has passed
\* the check for its target invokes the venv tool on it, whether or not
\* another process has created the directory since; an apply that returns 0
\* leaves its own recipe as the recipe.toml of the target, whatever another
\* process wrote there before.
C19_UncoordinatedApply ==
    [][\A p \in Procs :
        (StepOf(p) /\ Applying(p)')
        => /\ proc[p].pc = "venv"
              => /\ Len(proc'[p].calls) = 1
                 /\ proc'[p].calls[1].tool = "venv"
                 /\ proc'[p].calls[1].target = proc[p].target
           /\ (proc[p].pc # "idle" /\ proc'[p].pc = "idle" /\ proc'[p].rc = Some(0))
              => /\ proc'[p].target \in DOMAIN dirs'
                 /\ dirs'[proc'[p].target].recipe = write_recipe_toml(proc'[p].recipe)]_vars

\* Two applies of different recipes to the same name have both run the venv
\* tool on the same path and returned 0; the recipe.toml of the environment is
\* the recipe of the second process, not that of the first.
C19_Witness ==
    /\ \A p \in Procs :
          /\ Ran(p, "cmd_recipe_apply")
          /\ proc[p].rc = Some(0)
          /\ proc[p].calls[1].tool = "venv"
          /\ proc[p].calls[1].rc = 0
          /\ proc[p].calls[1].target = default_base_dir \o <<NameA>>
    /\ dirs[default_base_dir \o <<NameA>>].recipe = write_recipe_toml(proc[2].recipe)
    /\ dirs[default_base_dir \o <<NameA>>].recipe # write_recipe_toml(proc[1].recipe)

\* C20: an apply that fails after its venv step leaves the target directory;
\* while a path is there every apply to it returns 1 without invoking a tool;
\* a path goes away only by a delete of it; and an apply to a path that is
\* not there goes on to the venv tool.
C20_FailedApplyBlocks ==
    [][\A p \in Procs :
        LET rec == proc'[p]
            begun == proc[p].pc = "idle" /\ StepOf(p) /\ Applying(p)' /\ rec.target # <<>>
        IN  /\ (/\ StepOf(p) /\ Applying(p)'
                /\ rec.pc = "idle"
                /\ rec.calls # <<>>
                /\ rec.calls[1].rc = 0
                /\ rec.rc # Some(0))
               => rec.target \in DOMAIN dirs'
            /\ (begun /\ rec.target \in DOMAIN dirs)
               => (rec.pc = "idle" /\ rec.rc = Some(1) /\ rec.calls = <<>> /\ dirs' = dirs)
            /\ (begun /\ rec.target \notin DOMAIN dirs)
               => rec.pc = "venv"
            /\ StepOf(p)
               => \A path \in DOMAIN dirs \ DOMAIN dirs' :
                     /\ Ran(p, "cmd_delete")'
                     /\ rec.rc = Some(0)
                     /\ path = env_dir(p, rec.call.a.name)]_vars

\* An apply to B is refused with exit code 1 while B is there with its
\* interpreter and without recipe.toml: only an apply makes B, so an earlier
\* apply to B has failed at its install or post-install step.
C20_Witness ==
    \E p \in Procs :
        /\ Ran(p, "cmd_recipe_apply")
        /\ proc[p].rc = Some(1)
        /\ proc[p].calls = <<>>
        /\ proc[p].target = default_base_dir \o <<NameB>>
        /\ IsDir(proc[p].target)
        /\ dirs[proc[p].target].py
        /\ dirs[proc[p].target].recipe = NoFile

\* The place of a tool in the order of the steps of apply.
StepRank(tool) == IF tool = "venv" THEN 1 ELSE IF tool = "install" THEN 2 ELSE 3

\* C16: apply runs the venv tool, then the install tool, then the
\* post-install commands, then writes recipe.toml; when a tool exits with a
\* code c that is not 0, apply returns c at once: no later tool runs, no
\* recipe.toml is written, and the target directory stays as the tools left it.
C16_ApplySteps ==
    [][\A p \in Procs :
        (StepOf(p) /\ Applying(p)' /\ proc'[p].calls # <<>>)
        => LET calls == proc'[p].calls
               n == Len(calls)
               target == proc'[p].target
               written == /\ target \in DOMAIN dirs'
                          /\ dirs'[target].recipe # NoFile
           IN  /\ calls[1].tool = "venv"
               /\ \A i \in 1..n : \A j \in (i + 1)..n :
                     /\ StepRank(calls[i].tool) <= StepRank(calls[j].tool)
                     /\ StepRank(calls[j].tool) < 3 => calls[i].tool # calls[j].tool
               /\ \A i \in 1..(n - 1) : calls[i].rc = 0
               /\ calls[n].rc # 0
                  => /\ proc'[p].pc = "idle"
                     /\ proc'[p].rc = Some(calls[n].rc)
                     /\ ~written
                     /\ DOMAIN dirs \subseteq DOMAIN dirs'
                     /\ calls[n].tool # "venv" => dirs' = dirs
               /\ written => (proc'[p].pc = "idle" /\ proc'[p].rc = Some(0) /\ calls[n].rc = 0)]_vars

\* apply has returned the exit code 3 of its post-install command, after the
\* venv and install tools succeeded; the environment is there, without
\* recipe.toml.
C16_Witness ==
    \E p \in Procs :
        /\ Ran(p, "cmd_recipe_apply")
        /\ Len(proc[p].calls) = 3
        /\ proc[p].calls[2].tool = "install"
        /\ proc[p].calls[3].tool = "post"
        /\ proc[p].calls[3].rc = 3
        /\ proc[p].rc = Some(3)
        /\ IsDir(proc[p].target)
        /\ dirs[proc[p].target].recipe = NoFile

\* C15: a recipe.toml that a command has written has a [recipe] table with
\* at least one key of its own, and no list key that holds an empty list.
C15_WrittenRecipePopulated ==
    \A path \in DOMAIN dirs :
        dirs[path].recipe.kind = "toml"
        => /\ \E f \in StrFields : dirs[path].recipe.body[f] # <<>>
           /\ \A f \in ListFields :
                 dirs[path].recipe.body[f] # <<>>
                 => load_list(dirs[path].recipe.body[f][1]).val # <<>>

\* C22: after a successful `config set k v` a read of the settings in the
\* same process gives v for k and, for the other two keys, what a read gave
\* before; when k is home and v is not empty, base_dir is v and env_dir of a
\* name is under v.
C22_ConfigSetThenRead ==
    [][\A p \in Procs :
        (/\ StepOf(p)
         /\ Ran(p, "cmd_config_set")'
         /\ proc'[p].rc = Some(0))
        => LET key == proc'[p].call.a.key
               value == proc'[p].call.a.value
           IN  /\ get_config(p)'[key] = Some(value)
               /\ \A k \in ConfigKeys \ {key} : get_config(p)'[k] = get_config(p)[k]
               /\ (key = W("home") /\ value # <<>>)
                  => /\ base_dir(p)' = <<value>>
                     /\ env_dir(p, NameA)' = <<value, NameA>>]_vars

ClaimedShell(p) ==
    LET arg == proc[p].call.a.shell
        setting == get_config(p)[W("shell")]
        env == proc[p].env
    IN  expanduser(IF Truthy(arg) THEN arg[1]
                   ELSE IF Truthy(setting) THEN setting[1]
                   ELSE IF Truthy(env) THEN env[1]
                   ELSE W("/bin/bash"))

\* C13: spawn launches a shell only if the environment directory, its bin
\* subdirectory and bin/activate exist, and returns 1 without starting a
\* process otherwise; the shell launched is the argument, else the shell
\* setting, else $SHELL, else /bin/bash, and its exit code is returned.
C13_SpawnShell ==
    \A p \in Procs :
        Ran(p, "cmd_spawn")
        => LET target == env_dir(p, proc[p].call.a.name) IN
           IF IsDir(target) /\ dirs[target].bin = "activate"
           THEN /\ Len(proc[p].calls) = 1
                /\ proc[p].calls[1].tool = "shell"
                /\ proc[p].calls[1].target = target
                /\ proc[p].calls[1].args = <<ClaimedShell(p)>>
                /\ proc[p].rc = Some(proc[p].calls[1].rc)
           ELSE proc[p].rc = Some(1) /\ proc[p].calls = <<>>

\* spawn without a shell argument, with a shell setting and $SHELL set: the
\* shell of the setting was launched and its exit code 3 returned.
C13_Witness ==
    \E p \in Procs :
        /\ Ran(p, "cmd_spawn")
        /\ proc[p].call.a.shell = None
        /\ Truthy(proc[p].env)
        /\ proc[p].calls # <<>>
        /\ proc[p].calls[1].args = <<W("zsh")>>
        /\ proc[p].rc = Some(3)

\* The lines of what the freeze tool printed that name an installed package:
\* not blank, no comment, not editable.
RECURSIVE PackageLines(_)
PackageLines(lines) ==
    IF lines = <<>> THEN 0
    ELSE (IF /\ strip(Head(lines)) # <<>>
             /\ ~StartsWith(strip(Head(lines)), 1, <<"#">>)
             /\ ~StartsWith(strip(Head(lines)), 1, <<"-", "e">>)
          THEN 1 ELSE 0) + PackageLines(Tail(lines))

\* C11: info on an existing environment prints as package count the number
\* of lines of the freeze output that are not blank, no comment and not
\* editable; 0 when there is no interpreter or the freeze tool fails.
C11_InfoPackageCount ==
    \A p \in Procs :
        (Ran(p, "cmd_info") /\ proc[p].rc = Some(0))
        => proc[p].out[1].packages =
              IF proc[p].calls = <<>> \/ proc[p].calls[1].rc # 0 THEN 0
              ELSE PackageLines(splitlines(proc[p].stdout, <<>>))

\* The lines that name an installed package, trimmed, in their order.
RECURSIVE NamingLines(_)
NamingLines(lines) ==
    IF lines = <<>> THEN <<>>
    ELSE (IF PackageLines(<<Head(lines)>>) = 1 THEN <<strip(Head(lines))>> ELSE <<>>)
         \o NamingLines(Tail(lines))

\* The position of the earliest occurrence of any delimiter in a line, one
\* past the end of the line when it holds none.
EarliestDelimiter(line) ==
    LET at == {FindStr(line, Separators[i], 1) : i \in 1..Len(Separators)} \ {0}
    IN  IF at = {} THEN Len(line) + 1 ELSE CHOOSE m \in at : \A n \in at : m <= n

\* C12: of every line of the freeze output that is not blank, no comment and
\* not editable the pinned list gets the line and the unpinned list gets the
\* trimmed part of the line before the earliest occurrence of any delimiter;
\* the lists are equally long and in the order of the lines.
C12_PackagePartition ==
    (fn.op = "packages" /\ fn.pc = "done")
    => LET lines == NamingLines(splitlines(fn.in, <<>>))
       IN  /\ fn.out.pinned = lines
           /\ Len(fn.out.unpinned) = Len(lines)
           /\ \A i \in 1..Len(lines) :
                 fn.out.unpinned[i] =
                     strip(SubSeq(lines[i], 1, EarliestDelimiter(lines[i]) - 1))

(***************************************************************************)
(* Claims about the dispatcher and the recipe codec                        *)
(***************************************************************************)
\* The arguments each subcommand requires, from its usage line.
RequiredArgs ==
    {[words |-> <<w>>, n |-> 1] :
        w \in {W("create"), W("mk"), W("path"), W("delete"), W("rm"), W("spawn"),
               W("shell"), W("describe"), W("info")}}
    \cup {[words |-> <<W("recipe"), w>>, n |-> 1] :
        w \in {W("export"), W("apply"), W("show"), W("edit"), W("post")}}
    \cup {[words |-> <<W("recipe")>>, n |-> 1],
          [words |-> <<W("recipe"), W("describe")>>, n |-> 2],
          [words |-> <<W("config"), W("set")>>, n |-> 2]}

MissingArgument(argv) ==
    \E e \in RequiredArgs :
        /\ Len(argv) >= Len(e.words)
        /\ SubSeq(argv, 1, Len(e.words)) = e.words
        /\ Len(argv) - Len(e.words) < e.n

UnknownSubcommand(argv) ==
    \/ argv # <<>> /\ argv[1] \notin TopLevelWords
    \/ Len(argv) >= 2 /\ argv[1] = W("recipe") /\ argv[2] \notin RecipeWords
    \/ Len(argv) >= 2 /\ argv[1] = W("config") /\ argv[2] \notin ConfigWords

\* C6: every user error of the dispatcher (a required argument missing, an
\* unknown subcommand at the top level, under recipe or under config) returns
\* exit code 1; no argv whose first word is not a recognized subcommand
\* returns 0.
C6_UserErrorsExitOne ==
    \A p \in Procs :
        (proc[p].pc = "dispatched"
         /\ (MissingArgument(proc[p].argv) \/ UnknownSubcommand(proc[p].argv)))
        => proc[p].rc = Some(1)

\* C7: a recipe whose six fields are strings and non-empty lists of strings,
\* written by write_recipe_toml and read back by read_recipe_toml, comes back
\* with the same value in every field.
C7_RecipeRoundTrip ==
    (fn.op = "codec" /\ fn.pc = "read")
    => (fn.out.ok /\ \A f \in Fields : fn.out.recipe[f] = fn.in[f])

=============================================================================
